---- MODULE Spec2Model ----
(***************************************************************************)
(* A model of package timetree (js-arias/timetree): the Tree type, its     *)
(* node objects and the public mutators New, Add, AddSister, Delete, Move, *)
(* Set, SetName and Format.                                                *)
(*                                                                         *)
(* A Go *node is a pointer in Ptrs; heap maps every live pointer to the    *)
(* node's fields.  t.nodes, t.taxa and t.root are the three fields of the  *)
(* Tree.  Taxon names are sequences of one-character strings, so that      *)
(* canon can be computed as the code computes it.                          *)
(***************************************************************************)
EXTENDS Integers, Sequences, FiniteSets, TLC

VARIABLES heap, nodes, taxa, root, res, calls

vars == <<heap, nodes, taxa, root, res, calls>>
tree == <<heap, nodes, taxa, root>>

-----------------------------------------------------------------------------
(* Bounds of the model *)

\* the largest number of node objects alive at one time
MaxNodes == 5
\* the largest number of calls that write to the tree
MaxCalls == 5
Ptrs == 1..MaxNodes
\* an ID that no node has: a new node takes the number of nodes as its ID
AbsentID == MaxNodes
\* the ages and branch lengths callers pass
Ages == {-1, 0, 1, 2}
BrLens == {-1, 1, 3}
RootAges == {2}

\* the nil pointer
nil == 0
\* the ID returned with an error, and by Parent for the root
NoID == -1

\* names as callers spell them
RawNames ==
    { <<>>, <<"a">>, <<"A", " ">> }

\* the names, the branch lengths and the lists of names of the calls that
\* build the trees for the queries and ask them
QueryNames == { <<>>, <<"a">>, <<"b">> }
NamedBrLens == {0, 1}
MaxNames == 2
NameLists == UNION { [1..n -> QueryNames] : n \in 0..MaxNames }

\* the Newick texts read: a statement of one or two members, each a terminal
\* or a group of one or two terminals, with bare and quoted labels and with
\* and without branch lengths; the target ages of the root, in years
NewickLabels == { <<"a">>, <<"b">>, <<"'", "a", "'">>, <<"'", "a", ",", "'">> }
NewickLens == { <<>>, <<":", "1">>, <<":", "2">> }
GroupLens == { <<>>, <<":", "2">> }
RootLens == { <<>>, <<":", "1">>, <<":", "1", " ">> }
NewickAges == { 0, 2000000 }
NewickTerms == { l \o b : l \in NewickLabels, b \in NewickLens }
NewickGroups ==
    { <<"(">> \o x \o <<")">> \o b : x \in NewickTerms, b \in GroupLens }
    \cup { <<"(">> \o x \o <<",">> \o y \o <<")">> \o b :
             x \in NewickTerms, y \in NewickTerms, b \in GroupLens }
NewickMembers == NewickTerms \cup NewickGroups
NewickTexts ==
    { <<"(">> \o x \o <<")">> \o b \o <<";">> :
        x \in NewickMembers, b \in RootLens }
    \cup { <<"(">> \o x \o <<",">> \o y \o <<")">> \o b \o <<";">> :
             x \in NewickTerms, y \in NewickMembers, b \in RootLens }
    \cup { <<"(">> \o x \o <<",">> \o y \o <<")">> \o b \o <<";">> :
             x \in NewickGroups, y \in NewickTerms, b \in RootLens }

\* the Nexus texts read: a trees block with or without a TRANSLATE table of
\* two entries, and a tree statement of two terminals; the names the table
\* gives and the labels of the statement are letters and table keys
TableNames == { <<"a">>, <<"b">>, <<"1">>, <<"2">> }
TreeLabels == { <<"a">>, <<"b">>, <<"1">>, <<"2">> }
NexusHeader == <<"#", "n", "e", "x", "u", "s", " ", "b", "e", "g", "i", "n", " ", "t", "r", "e", "e", "s", ";", " ">>
NexusTable(x, y) == <<"t", "r", "a", "n", "s", "l", "a", "t", "e", " ", "1", " ">> \o x \o <<",", " ", "2", " ">> \o y \o <<";", " ">>
NexusTree(m, n) == <<"t", "r", "e", "e", " ", "t", " ", "=", " ", "[", "&", "R", "]", " ", "(">> \o m \o <<",">> \o n \o <<")", ";", " ">>
NexusEnd == <<"e", "n", "d", ";">>
NexusTexts ==
    { NexusHeader \o NexusTable(x, y) \o NexusTree(m, n) \o NexusEnd :
        x \in TableNames, y \in TableNames, m \in TreeLabels, n \in TreeLabels }
    \cup { NexusHeader \o NexusTree(m, n) \o NexusEnd :
             m \in TreeLabels, n \in TreeLabels }

\* the tables read: up to MaxRows rows of one tree, with the IDs, parents,
\* ages and taxa of a tree of three nodes, in any order
MaxRows == 3
RowNodes == { <<"0">>, <<"1">>, <<"2">> }
RowParents == { <<"-", "1">>, <<"0">>, <<"1">> }
RowAges == { <<"1">>, <<"2">> }
RowTaxa == { <<>>, <<"a">>, <<"b">> }
TableRows ==
    [tree : {<<"t">>}, node : RowNodes, parent : RowParents, age : RowAges,
     taxon : RowTaxa]
Tables == UNION { [1..n -> TableRows] : n \in 1..MaxRows }

-----------------------------------------------------------------------------
(* canon: strings.Fields, strings.Join, strings.ToLower, unicode.ToUpper *)

IsSpace(c) == c = " "

ToLower(c) ==
    CASE c = "A" -> "a"
      [] c = "B" -> "b"
      [] c = "T" -> "t"
      [] OTHER -> c

ToUpper(c) ==
    CASE c = "a" -> "A"
      [] c = "b" -> "B"
      [] c = "t" -> "T"
      [] OTHER -> c

\* the byte order of the characters used
Ord(c) ==
    CASE c = " " -> 32
      [] c = "'" -> 39
      [] c = "(" -> 40
      [] c = ")" -> 41
      [] c = "," -> 44
      [] c = "1" -> 49
      [] c = "2" -> 50
      [] c = ":" -> 58
      [] c = ";" -> 59
      [] c = "A" -> 65
      [] c = "B" -> 66
      [] c = "T" -> 84
      [] c = "a" -> 97
      [] c = "b" -> 98
      [] c = "t" -> 116
      [] OTHER -> 127

\* strings.Fields: the maximal runs of non-space characters
RECURSIVE FieldsFrom(_, _, _, _)
FieldsFrom(s, i, cur, words) ==
    IF i > Len(s)
    THEN IF cur = <<>> THEN words ELSE Append(words, cur)
    ELSE IF IsSpace(s[i])
         THEN FieldsFrom(s, i + 1, <<>>,
                         IF cur = <<>> THEN words ELSE Append(words, cur))
         ELSE FieldsFrom(s, i + 1, Append(cur, s[i]), words)

Fields(s) == FieldsFrom(s, 1, <<>>, <<>>)

\* strings.Join(words, " ")
RECURSIVE JoinFrom(_, _)
JoinFrom(words, i) ==
    IF i > Len(words) THEN <<>>
    ELSE IF i = Len(words) THEN words[i]
    ELSE words[i] \o <<" ">> \o JoinFrom(words, i + 1)

Join(words) == JoinFrom(words, 1)

canon(name) ==
    LET joined == Join(Fields(name))
    IN  IF joined = <<>> THEN <<>>
        ELSE LET lower == [i \in 1..Len(joined) |-> ToLower(joined[i])]
             IN  <<ToUpper(lower[1])>> \o SubSeq(lower, 2, Len(lower))

\* s < t for Go strings
RECURSIVE StrLess(_, _)
StrLess(s, t) ==
    IF t = <<>> THEN FALSE
    ELSE IF s = <<>> THEN TRUE
    ELSE IF Ord(Head(s)) # Ord(Head(t)) THEN Ord(Head(s)) < Ord(Head(t))
    ELSE StrLess(Tail(s), Tail(t))

-----------------------------------------------------------------------------
(* Helpers on the heap *)

Range(f) == { f[x] : x \in DOMAIN f }

Restrict(f, S) == [x \in S |-> f[x]]

\* the non-nil entries of a children slice
Kids(h, n) == { h[n].children[i] : i \in 1..Len(h[n].children) } \ {nil}

\* n and every node below it
RECURSIVE Subtree(_, _)
Subtree(h, n) == {n} \cup UNION { Subtree(h, c) : c \in Kids(h, n) }

\* the objects the Tree still references: everything else is garbage
RECURSIVE Closure(_, _)
Closure(h, S) ==
    LET next == S \cup UNION { Kids(h, o) : o \in S }
                  \cup ({ h[o].parent : o \in S } \ {nil})
    IN  IF next = S THEN S ELSE Closure(h, next)

Live(h, r, ns, tx) == Closure(h, {r} \cup Range(ns) \cup Range(tx))

\* the live objects in a fixed order: those below r in pre-order, then the rest
RECURSIVE Walk(_, _)
Walk(h, n) ==
    LET cs == h[n].children
        walk[i \in 0..Len(cs)] ==
            IF i = 0 THEN <<n>>
            ELSE IF cs[i] = nil THEN walk[i - 1]
            ELSE walk[i - 1] \o Walk(h, cs[i])
    IN  walk[Len(cs)]

RECURSIVE Ascending(_)
Ascending(S) ==
    IF S = {} THEN <<>>
    ELSE LET m == CHOOSE x \in S : \A y \in S : x <= y
         IN  <<m>> \o Ascending(S \ {m})

LiveOrder(h, r, ns, tx) ==
    LET w == Walk(h, r)
    IN  w \o Ascending(Live(h, r, ns, tx) \ Range(w))

\* The value of a pointer cannot be observed, only whether two pointers are
\* equal.  After every call the live objects are renumbered in LiveOrder (the
\* root is object 1) and the garbage is dropped, so that two heaps that differ
\* in their addresses alone are one state.
RenPtr(ren, o) == IF o = nil THEN nil ELSE ren[o]

CommitIn(h, r, ns, tx, ord) ==
    LET ren == [o \in Range(ord) |-> CHOOSE i \in 1..Len(ord) : ord[i] = o]
    IN  /\ heap' = [q \in 1..Len(ord) |->
                       [h[ord[q]] EXCEPT
                           !.parent = RenPtr(ren, @),
                           !.children = [i \in 1..Len(@) |-> RenPtr(ren, @[i])]]]
        /\ nodes' = [k \in DOMAIN ns |-> ren[ns[k]]]
        /\ taxa' = [k \in DOMAIN tx |-> ren[tx[k]]]
        /\ root' = ren[r]

\* the end of a call that changed the tree: the fields of the Tree after it
Commit(h, r, ns, tx, result) ==
    /\ res' = result
    /\ calls' = calls + 1
    /\ \E hv \in {h} : \E nv \in {ns} : \E tv \in {tx} :
           \E ord \in {LiveOrder(hv, r, nv, tv)} :
               CommitIn(hv, r, nv, tv, ord)

\* the address of a newly allocated node: the lowest free one
NewPtr(h) == CHOOSE p \in Ptrs \ DOMAIN h : \A q \in Ptrs \ DOMAIN h : p <= q

Room(k) == Cardinality(DOMAIN heap) + k <= MaxNodes

\* the index of the first occurrence of x in s (0 if none)
IndexOf(s, x) ==
    IF \E i \in 1..Len(s) : s[i] = x
    THEN CHOOSE i \in 1..Len(s) : s[i] = x /\ \A j \in 1..(i - 1) : s[j] # x
    ELSE 0

RemoveAt(s, i) == SubSeq(s, 1, i - 1) \o SubSeq(s, i + 1, Len(s))

\* the last call: the method, its arguments, the error and the ID it returned,
\* the branch it took, and whether it reached its writes to the tree or
\* returned before them
Result(op, args, err, ret, path) ==
    [op |-> op, args |-> args, err |-> err, ret |-> ret, path |-> path,
     wrote |-> TRUE]

\* a call that returns early and changes nothing
Fail(op, args, err, ret, path) ==
    /\ res' = [Result(op, args, err, ret, path) EXCEPT !.wrote = FALSE]
    /\ UNCHANGED tree
    /\ UNCHANGED calls

-----------------------------------------------------------------------------
(* New *)

Init ==
    \E age \in RootAges :
        /\ heap = (1 :> [id |-> 0, parent |-> nil, age |-> age, taxon |-> <<>>,
                         brLen |-> 0, children |-> <<>>])
        /\ nodes = (0 :> 1)
        /\ taxa = <<>>
        /\ root = 1
        /\ res = Result("New", <<age>>, "", 0, "")
        /\ calls = 0

-----------------------------------------------------------------------------
(* Add *)

\* the ID given to a new node
NextID(ns) == Cardinality(DOMAIN ns)

\* the age of a node added with a branch length
AddAge(pAge, brLen) == pAge - brLen

\* an Add that accepts a node one year younger than the present
AddBadAgeLate(age) == age < -1

\* whether Add rejects the age it computed
AddBadAge(age) == age < 0

Add(id, brLen, name) ==
    IF id \notin DOMAIN nodes
    THEN Fail("Add", <<id, brLen, name>>, "NoParent", NoID, "")
    ELSE
    LET p == nodes[id]
        cname == canon(name)
        age == AddAge(heap[p].age, brLen)
    IN  IF cname # <<>> /\ cname \in DOMAIN taxa
        THEN Fail("Add", <<id, brLen, name>>, "RepeatedTaxon", NoID, "")
        ELSE IF AddBadAge(age)
        THEN Fail("Add", <<id, brLen, name>>, "InvalidBrLen", NoID, "")
        ELSE
        /\ Room(1)
        /\ LET n == NewPtr(heap)
               nid == NextID(nodes)
               h1 == (n :> [id |-> nid, parent |-> p, age |-> age,
                            taxon |-> cname, brLen |-> brLen,
                            children |-> <<>>]) @@ heap
               h2 == [h1 EXCEPT ![p].children = Append(@, n)]
               ns == (nid :> n) @@ nodes
               tx == IF cname # <<>> THEN (cname :> n) @@ taxa ELSE taxa
           IN  Commit(h2, root, ns, tx, Result("Add", <<id, brLen, name>>, "", nid, ""))

-----------------------------------------------------------------------------
(* AddSister *)

\* the cached branch length of the new internal node
SisterParentBrLen(ppAge, age, pAge) == ppAge - age

\* whether the new internal node would be younger than the sister
SisterTooYoung(pAge, sAge) == pAge < sAge

\* an AddSister that accepts a new internal node as old as its parent
SisterTooOldStrict(ppAge, pAge) == ppAge < pAge

\* whether the new internal node would not be younger than its parent
SisterTooOld(ppAge, pAge) == ppAge <= pAge

AddSister(id, age, brLen, name) ==
    IF id \notin DOMAIN nodes
    THEN Fail("AddSister", <<id, age, brLen, name>>, "NoSister", NoID, "")
    ELSE
    LET sister == nodes[id]
        cname == canon(name)
        pAge == age + brLen
        pp == heap[sister].parent
    IN  IF root = sister
        THEN Fail("AddSister", <<id, age, brLen, name>>, "RootSister", NoID, "")
        ELSE IF cname # <<>> /\ cname \in DOMAIN taxa
        THEN Fail("AddSister", <<id, age, brLen, name>>, "RepeatedTaxon", NoID, "")
        ELSE IF SisterTooYoung(pAge, heap[sister].age)
        THEN Fail("AddSister", <<id, age, brLen, name>>, "YoungerAge", NoID, "")
        ELSE IF pp = nil
        THEN \* pp.age on a nil pointer
             Fail("AddSister", <<id, age, brLen, name>>, "panic", NoID, "")
        ELSE IF SisterTooOld(heap[pp].age, pAge)
        THEN Fail("AddSister", <<id, age, brLen, name>>, "OlderAge", NoID, "")
        ELSE
        /\ Room(2)
        /\ LET p == NewPtr(heap)
               pid == NextID(nodes)
               h1 == (p :> [id |-> pid, parent |-> pp, age |-> pAge,
                            taxon |-> <<>>,
                            brLen |-> SisterParentBrLen(heap[pp].age, age, pAge),
                            children |-> <<sister>>]) @@ heap
               ns1 == (pid :> p) @@ nodes
               i == IndexOf(heap[pp].children, sister)
               h2 == IF i = 0 THEN h1 ELSE [h1 EXCEPT ![pp].children[i] = p]
               h3 == [h2 EXCEPT ![sister].parent = p]
               n == NewPtr(h3)
               nid == NextID(ns1)
               h4 == (n :> [id |-> nid, parent |-> p, age |-> age,
                            taxon |-> cname, brLen |-> brLen,
                            children |-> <<>>]) @@ h3
               h5 == [h4 EXCEPT ![p].children = Append(@, n)]
               ns2 == (nid :> n) @@ ns1
               tx == IF cname # <<>> THEN (cname :> n) @@ taxa ELSE taxa
           IN  Commit(h5, root, ns2, tx, Result("AddSister", <<id, age, brLen, name>>, "", nid, ""))

-----------------------------------------------------------------------------
(* Delete *)

\* a del that keeps the entry of the node itself
delIDsBelow(h, n) == { h[o].id : o \in Subtree(h, n) \ {n} }

\* node.del: the IDs and the names it removes from the maps of the tree
delIDs(h, n) == { h[o].id : o \in Subtree(h, n) }
delTaxa(h, n) == { h[o].taxon : o \in Subtree(h, n) } \ {<<>>}

\* the first child of p that is not n (0 if none)
OtherChild(h, p, n) ==
    LET cs == h[p].children
    IN  IF \E i \in 1..Len(cs) : cs[i] # n
        THEN CHOOSE i \in 1..Len(cs) : cs[i] # n /\ \A j \in 1..(i - 1) : cs[j] = n
        ELSE 0

\* the inner loop of the removal of a parent: every child of p other than n
\* takes the place i of p in anc
RECURSIVE Reparent(_, _, _, _, _, _)
Reparent(h, anc, i, p, n, j) ==
    IF j > Len(h[p].children) THEN h
    ELSE LET s == h[p].children[j]
         IN  IF s = n THEN Reparent(h, anc, i, p, n, j + 1)
             ELSE Reparent([h EXCEPT ![anc].children[i] = s,
                                     ![p].children[j] = nil,
                                     ![s].parent = anc],
                           anc, i, p, n, j + 1)

\* the outer loop: every place of anc that holds p
RECURSIVE RemoveParent(_, _, _, _, _)
RemoveParent(h, anc, p, n, i) ==
    IF i > Len(h[anc].children) THEN h
    ELSE IF h[anc].children[i] # p THEN RemoveParent(h, anc, p, n, i + 1)
    ELSE RemoveParent(Reparent(h, anc, i, p, n, 1), anc, p, n, i + 1)

\* whether Delete takes the branch of a polytomous parent
IsPolytomy(h, p) == Len(h[p].children) > 2

Delete(id) ==
    IF id \notin DOMAIN nodes
    THEN Fail("Delete", <<id>>, "", NoID, "absent")
    ELSE
    LET n == nodes[id]
        p == heap[n].parent
    IN  IF p = nil
        THEN \* len(p.children) on a nil pointer
             Fail("Delete", <<id>>, "panic", NoID, "nilparent")
        ELSE IF IsPolytomy(heap, p)
        THEN LET i == IndexOf(heap[p].children, n)
                 h1 == [heap EXCEPT ![p].children = RemoveAt(@, i),
                                    ![n].parent = nil]
                 ns == Restrict(nodes, DOMAIN nodes \ delIDs(h1, n))
                 tx == Restrict(taxa, DOMAIN taxa \ delTaxa(h1, n))
             IN  Commit(h1, root, ns, tx, Result("Delete", <<id>>, "", NoID, "polytomy"))
        ELSE
        LET anc == heap[p].parent
        IN  IF anc = nil
            THEN LET i == OtherChild(heap, p, n)
                     c == heap[p].children[i]
                     h1 == IF i = 0 THEN heap
                           ELSE [heap EXCEPT ![c].parent = nil,
                                             ![p].children[i] = nil]
                     r == IF i = 0 THEN root ELSE c
                     ns == Restrict(nodes, DOMAIN nodes \ delIDs(h1, p))
                     tx == Restrict(taxa, DOMAIN taxa \ delTaxa(h1, p))
                 IN  Commit(h1, r, ns, tx, Result("Delete", <<id>>, "", NoID, "basal"))
            ELSE LET h1 == RemoveParent(heap, anc, p, n, 1)
                     h2 == [h1 EXCEPT ![p].parent = nil]
                     ns == Restrict(nodes, DOMAIN nodes \ delIDs(h2, p))
                     tx == Restrict(taxa, DOMAIN taxa \ delTaxa(h2, p))
                 IN  Commit(h2, root, ns, tx, Result("Delete", <<id>>, "", NoID, "inner"))

-----------------------------------------------------------------------------
(* Move *)

RECURSIVE maxLen(_, _)
maxLen(h, n) ==
    LET lens == { maxLen(h, c) : c \in Kids(h, n) } \cup {0}
        cLen == CHOOSE l \in lens : \A m \in lens : m <= l
    IN  cLen + h[n].brLen

RECURSIVE propagateAge(_, _)
RECURSIVE propagateKids(_, _, _)
propagateAge(h, n) ==
    LET h1 == IF h[n].parent # nil
              THEN [h EXCEPT ![n].age = h[h[n].parent].age - h[n].brLen]
              ELSE h
    IN  propagateKids(h1, n, 1)

propagateKids(h, n, i) ==
    IF i > Len(h[n].children) THEN h
    ELSE propagateKids(propagateAge(h, h[n].children[i]), n, i + 1)

Move(age) ==
    IF age < maxLen(heap, root)
    THEN Fail("Move", <<age>>, "InvalidRootAge", NoID, "")
    ELSE Commit(propagateAge([heap EXCEPT ![root].age = age], root),
                root, nodes, taxa, Result("Move", <<age>>, "", NoID, ""))

-----------------------------------------------------------------------------
(* Set *)

\* a Set whose running maximum starts below every age a caller passes
MaxChildAgeLow(h, n) ==
    LET as == { h[c].age : c \in Kids(h, n) } \cup {-2}
    IN  CHOOSE a \in as : \A b \in as : b <= a

\* the age of the oldest child, or 0
MaxChildAge(h, n) ==
    LET as == { h[c].age : c \in Kids(h, n) } \cup {0}
    IN  CHOOSE a \in as : \A b \in as : b <= a

Set(id, age) ==
    IF id \notin DOMAIN nodes
    THEN Fail("Set", <<id, age>>, "", NoID, "absent")
    ELSE
    LET n == nodes[id]
        p == heap[n].parent
    IN  IF p # nil /\ heap[p].age < age
        THEN Fail("Set", <<id, age>>, "OlderAge", NoID, "")
        ELSE IF MaxChildAge(heap, n) > age
        THEN Fail("Set", <<id, age>>, "YoungerAge", NoID, "")
        ELSE Commit([heap EXCEPT ![n].age = age], root, nodes, taxa,
                    Result("Set", <<id, age>>, "", NoID, ""))

-----------------------------------------------------------------------------
(* SetName *)

isTerm(h, n) == Len(h[n].children) = 0

\* the taxon field of a node whose name SetName has cleared
ClearedTaxon(old) == old

\* whether SetName rejects the canonical name for node n
SetNameDup(tx, cname, n) == cname \in DOMAIN tx

SetName(id, name) ==
    IF id \notin DOMAIN nodes
    THEN Fail("SetName", <<id, name>>, "", NoID, "absent")
    ELSE
    LET n == nodes[id]
        cname == canon(name)
    IN  IF cname = <<>>
        THEN IF isTerm(heap, n)
             THEN Fail("SetName", <<id, name>>, "UnnamedTerm", NoID, "")
             ELSE IF heap[n].taxon = <<>>
             THEN Fail("SetName", <<id, name>>, "", NoID, "unnamed")
             ELSE LET tx == Restrict(taxa, DOMAIN taxa \ {heap[n].taxon})
                      h1 == [heap EXCEPT ![n].taxon = ClearedTaxon(@)]
                  IN  Commit(h1, root, nodes, tx,
                             Result("SetName", <<id, name>>, "", NoID, "clear"))
        ELSE IF SetNameDup(taxa, cname, n)
        THEN Fail("SetName", <<id, name>>, "RepeatedTaxon", NoID, "")
        ELSE LET tx0 == IF heap[n].taxon # <<>>
                        THEN Restrict(taxa, DOMAIN taxa \ {heap[n].taxon})
                        ELSE taxa
                 tx == (cname :> n) @@ tx0
                 h1 == [heap EXCEPT ![n].taxon = cname]
             IN  Commit(h1, root, nodes, tx,
                        Result("SetName", <<id, name>>, "", NoID, "rename"))

-----------------------------------------------------------------------------
(* Format *)

RECURSIVE size(_, _)
size(h, n) ==
    IF isTerm(h, n) THEN 1
    ELSE LET cs == h[n].children
             sum[i \in 0..Len(cs)] ==
                 IF i = 0 THEN 0 ELSE sum[i - 1] + size(h, cs[i])
         IN  sum[Len(cs)]

RECURSIVE firstTerm(_, _)
firstTerm(h, n) ==
    IF isTerm(h, n) THEN h[n].taxon
    ELSE LET cs == h[n].children
             first[i \in 1..Len(cs)] ==
                 IF i = 1 THEN firstTerm(h, cs[1])
                 ELSE LET t == firstTerm(h, cs[i])
                      IN  IF StrLess(t, first[i - 1]) THEN t ELSE first[i - 1]
         IN  first[Len(cs)]

\* a comparison that puts the second of two nodes first when they tie
cmpNodesTie(h, a, b) ==
    LET szA == size(h, a)
        szB == size(h, b)
    IN  IF szA # szB
        THEN IF szA < szB THEN -1 ELSE 1
        ELSE IF h[a].age # h[b].age
        THEN IF h[a].age > h[b].age THEN -1 ELSE 1
        ELSE IF StrLess(firstTerm(h, b), firstTerm(h, a)) THEN 1 ELSE -1

\* a comparison that puts the younger of two nodes of the same size first
cmpNodesYoung(h, a, b) ==
    LET szA == size(h, a)
        szB == size(h, b)
    IN  IF szA # szB
        THEN IF szA < szB THEN -1 ELSE 1
        ELSE IF h[a].age # h[b].age
        THEN IF h[a].age < h[b].age THEN -1 ELSE 1
        ELSE IF StrLess(firstTerm(h, a), firstTerm(h, b)) THEN -1 ELSE 1

\* the comparison function given to slices.SortFunc
cmpNodes(h, a, b) ==
    LET szA == size(h, a)
        szB == size(h, b)
    IN  IF szA # szB
        THEN IF szA < szB THEN -1 ELSE 1
        ELSE IF h[a].age # h[b].age
        THEN IF h[a].age > h[b].age THEN -1 ELSE 1
        ELSE IF StrLess(firstTerm(h, a), firstTerm(h, b)) THEN -1 ELSE 1

\* slices.SortFunc on a slice of fewer than 12 elements: an insertion sort
RECURSIVE insertDown(_, _, _)
insertDown(h, s, j) ==
    IF j > 1 /\ cmpNodes(h, s[j], s[j - 1]) < 0
    THEN insertDown(h, [s EXCEPT ![j] = s[j - 1], ![j - 1] = s[j]], j - 1)
    ELSE s

RECURSIVE insertionSort(_, _, _)
insertionSort(h, s, i) ==
    IF i > Len(s) THEN s
    ELSE insertionSort(h, insertDown(h, s, i), i + 1)

\* Every children slice below n is sorted.  The comparison reads the size, the
\* age and the first terminal of a child, none of which depends on the order
\* of the children below it, so sorting the descendants first (as the code
\* does) and sorting every slice on the heap as it is give the same result.
sortAllChildren(h, n) ==
    [o \in DOMAIN h |->
        IF o \in Subtree(h, n)
        THEN [h[o] EXCEPT !.children = insertionSort(h, @, 2)]
        ELSE h[o]]

RECURSIVE preOrder(_, _)
preOrder(h, n) ==
    LET cs == h[n].children
        walk[i \in 0..Len(cs)] ==
            IF i = 0 THEN <<n>> ELSE walk[i - 1] \o preOrder(h, cs[i])
    IN  walk[Len(cs)]

\* the IDs of Format: every node takes its place in ns
Renumber(h, ns) ==
    [o \in DOMAIN h |->
        IF \E i \in 1..Len(ns) : ns[i] = o
        THEN [h[o] EXCEPT !.id = IndexOf(ns, o) - 1]
        ELSE h[o]]

\* The path of the result tells whether the call before was a Format too.
Format ==
    \E h1 \in {sortAllChildren(heap, root)} :
        \E ns \in {preOrder(h1, root)} :
            Commit(Renumber(h1, ns), root,
                   [i \in 0..(Len(ns) - 1) |-> ns[i + 1]], taxa,
                   Result("Format", <<>>, "", NoID,
                          IF res.op = "Format" THEN "again" ELSE "first"))

-----------------------------------------------------------------------------
(* The read-only methods of Tree, on the fields h, ns, tx and r of a tree *)

\* slices.Sort on a slice of integers
RECURSIVE SortInts(_)
SortInts(s) ==
    IF s = <<>> THEN <<>>
    ELSE LET i == CHOOSE j \in 1..Len(s) : \A k \in 1..Len(s) : s[j] <= s[k]
         IN  <<s[i]>> \o SortInts(RemoveAt(s, i))

\* the IDs of the children of object n, in the order of n.children
ChildIDs(h, n) == [i \in 1..Len(h[n].children) |-> h[h[n].children[i]].id]

Nodes(h, ns) == { h[ns[k]].id : k \in DOMAIN ns }

Age(h, ns, id) == IF id \notin DOMAIN ns THEN 0 ELSE h[ns[id]].age

Children(h, ns, id) ==
    IF id \notin DOMAIN ns THEN <<>>
    ELSE IF isTerm(h, ns[id]) THEN <<>>
    ELSE SortInts(ChildIDs(h, ns[id]))

IsRoot(h, ns, id) == IF id \notin DOMAIN ns THEN FALSE ELSE h[ns[id]].parent = nil

IsTerm(h, ns, id) == IF id \notin DOMAIN ns THEN FALSE ELSE isTerm(h, ns[id])

Parent(h, ns, id) ==
    IF id \notin DOMAIN ns THEN NoID
    ELSE IF h[ns[id]].parent = nil THEN NoID
    ELSE h[h[ns[id]].parent].id

Root(h, r) == h[r].id

LenToRoot(h, ns, r, id) == IF id \notin DOMAIN ns THEN 0 ELSE h[r].age - h[ns[id]].age

Taxa(h, tx) == { h[tx[k]].taxon : k \in DOMAIN tx }

Taxon(h, ns, id) == IF id \notin DOMAIN ns THEN <<>> ELSE h[ns[id]].taxon

\* TaxNode: the ID, or NoID when the second result is false
TaxNode(h, tx, name) ==
    IF canon(name) = <<>> THEN NoID
    ELSE IF canon(name) \notin DOMAIN tx THEN NoID
    ELSE h[tx[canon(name)]].id

\* the node objects of the tree: those reached from the root, and those the
\* tree lists by ID
Reached == Subtree(heap, root)
Listed == Range(nodes)

-----------------------------------------------------------------------------

\* A call that returned before its writes left the tree as it was: the calls
\* that could follow it are those that could follow the state before it, and
\* they are explored from there.
\* the IDs from the root down to the node n, following the parent pointers
RECURSIVE pathIDs(_, _)
pathIDs(h, n) ==
    IF n = nil THEN <<>> ELSE Append(pathIDs(h, h[n].parent), h[n].id)

\* the part of mrca before the first place where m ends or differs
commonPrefix(mrca, m) ==
    LET stop == { i \in 1..Len(mrca) : i > Len(m) \/ mrca[i] # m[i] }
    IN  IF stop = {} THEN mrca
        ELSE SubSeq(mrca, 1, (CHOOSE i \in stop : \A j \in stop : i <= j) - 1)

\* the loop over names[1:], from the i-th name on
RECURSIVE mrcaFrom(_, _, _, _, _)
mrcaFrom(h, tx, names, i, mrca) ==
    IF i > Len(names)
    THEN IF mrca = <<>>
         THEN [err |-> "panic", ret |-> NoID]
         ELSE [err |-> "", ret |-> mrca[Len(mrca)]]
    ELSE IF canon(names[i]) \notin DOMAIN tx
    THEN [err |-> "", ret |-> NoID]
    ELSE mrcaFrom(h, tx, names, i + 1,
                  commonPrefix(mrca, pathIDs(h, tx[canon(names[i])])))

MRCA(h, tx, names) ==
    IF Len(names) = 0 THEN [err |-> "", ret |-> NoID]
    ELSE IF canon(names[1]) \notin DOMAIN tx THEN [err |-> "", ret |-> NoID]
    ELSE IF Len(names) = 1 THEN [err |-> "", ret |-> h[tx[canon(names[1])]].id]
    ELSE mrcaFrom(h, tx, names, 2, pathIDs(h, tx[canon(names[1])]))

\* the call of MRCA: it writes nothing
MRCAQuery(names) ==
    \E r \in {MRCA(heap, taxa, names)} :
        Fail("MRCA", <<names>>, r.err, r.ret, "")

\* the error of Validate at a node, "" if the node passes both tests
ValidateNode(h, n) ==
    IF Len(h[n].children) = 1 THEN "SingleChild"
    ELSE IF isTerm(h, n) /\ h[n].taxon = <<>> THEN "UnnamedTerm"
    ELSE ""

\* Validate returns at the first node of t.nodes that fails a test.  The
\* order in which a map is ranged over is not defined, so any failing node
\* can be the first one.
Validate ==
    LET bad == { n \in Range(nodes) : ValidateNode(heap, n) # "" }
    IN  IF bad = {}
        THEN Fail("Validate", <<>>, "", NoID, "")
        ELSE \E n \in bad :
                 Fail("Validate", <<>>, ValidateNode(heap, n), heap[n].id, "")

\* the name of the tree, as given to New
TreeName == <<"t">>

\* the name of the tree of SubTree
subName(name, taxon, id) ==
    LET given == Join(Fields(name))
        picked == IF given # <<>> THEN given
                  ELSE IF taxon # <<>> THEN taxon
                  ELSE TreeName \o <<":", "n", "o", "d", "e", "-", ToString(id)>>
    IN  [i \in 1..Len(picked) |-> ToLower(picked[i])]

\* the nodes below n in the order in which copySource finishes them
RECURSIVE postOrder(_, _)
postOrder(h, n) ==
    LET cs == h[n].children
        walk[i \in 0..Len(cs)] ==
            IF i = 0 THEN <<>> ELSE walk[i - 1] \o postOrder(h, cs[i])
    IN  Append(walk[Len(cs)], n)

\* a copy that keeps the children slice of the source node
copyChildrenShared(h, cs, at) == cs

\* the children slice of a copy: the copies of the children, in order
copyChildren(h, cs, at) == [i \in 1..Len(cs) |-> at[cs[i]]]

\* copySource(nil, n) on an empty tree: the heap with the copies added, and
\* the nodes, taxa and root of the new tree.  A copy is made before the
\* copies of its children, and takes the number of copies made so far as ID;
\* t.taxa is written when the children are done, so of several nodes with
\* one name the last that is finished keeps the entry.
copySource(h, n) ==
    LET w == preOrder(h, n)
        base == Cardinality(DOMAIN h)
        at == [o \in Range(w) |-> base + IndexOf(w, o)]
        up == [o \in Range(w) \ {n} |->
                  CHOOSE p \in Range(w) :
                      \E i \in 1..Len(h[p].children) : h[p].children[i] = o]
        copy(o) == [id |-> IndexOf(w, o) - 1,
                    parent |-> IF o = n THEN nil ELSE at[up[o]],
                    age |-> h[o].age,
                    taxon |-> h[o].taxon,
                    brLen |-> IF o = n THEN 0 ELSE h[up[o]].age - h[o].age,
                    children |-> copyChildren(h, h[o].children, at)]
        post == postOrder(h, n)
        named == { h[o].taxon : o \in Range(w) } \ {<<>>}
        last(nm) == post[CHOOSE i \in 1..Len(post) :
                            /\ h[post[i]].taxon = nm
                            /\ \A j \in (i + 1)..Len(post) : h[post[j]].taxon # nm]
    IN  [heap |-> [q \in 1..(base + Len(w)) |->
                      IF q <= base THEN h[q] ELSE copy(w[q - base])],
         nodes |-> [k \in 0..(Len(w) - 1) |-> at[w[k + 1]]],
         taxa |-> [nm \in named |-> at[last(nm)]],
         root |-> at[n]]

\* Format of the tree t, a record of the fields of a Tree
formatTree(t) ==
    LET h1 == sortAllChildren(t.heap, t.root)
        ns == preOrder(h1, t.root)
    IN  [t EXCEPT !.heap = Renumber(h1, ns),
                  !.nodes = [i \in 0..(Len(ns) - 1) |-> ns[i + 1]]]

\* SubTree returns a tree or nil and writes nothing to the tree.  A nil in a
\* children slice below the node is dereferenced by copySource.
SubTree(id, name) ==
    IF id \notin DOMAIN nodes
    THEN Fail("SubTree", <<id, name>>, "", NoID, "absent")
    ELSE IF \E o \in Subtree(heap, nodes[id]) :
                \E i \in 1..Len(heap[o].children) : heap[o].children[i] = nil
    THEN Fail("SubTree", <<id, name>>, "panic", NoID, "nilchild")
    ELSE \E sub \in {formatTree(copySource(heap, nodes[id]))} :
             Fail("SubTree", <<id, name>>, "",
                  [heap |-> sub.heap, nodes |-> sub.nodes, taxa |-> sub.taxa,
                   root |-> sub.root,
                   name |-> subName(name, heap[nodes[id]].taxon, id)],
                  "copy")

-----------------------------------------------------------------------------
(* ReadTSV and Collection.TSV *)

Digits == <<"0", "1", "2", "3", "4", "5", "6", "7", "8", "9">>

\* strconv.Itoa and strconv.FormatInt(n, 10)
RECURSIVE natString(_)
natString(n) ==
    IF n < 10 THEN <<Digits[n + 1]>>
    ELSE Append(natString(n \div 10), Digits[(n % 10) + 1])

Itoa(n) == IF n < 0 THEN <<"-">> \o natString(-n) ELSE natString(n)

IsDigit(c) == \E d \in 1..10 : Digits[d] = c

DigitValue(c) == (CHOOSE d \in 1..10 : Digits[d] = c) - 1

RECURSIVE natValue(_)
natValue(s) ==
    IF Len(s) = 1 THEN DigitValue(s[1])
    ELSE 10 * natValue(SubSeq(s, 1, Len(s) - 1)) + DigitValue(s[Len(s)])

\* strconv.Atoi and strconv.ParseInt(s, 10, 64), for numbers that fit
Atoi(s) ==
    LET signed == s # <<>> /\ s[1] \in {"-", "+"}
        body == IF signed THEN Tail(s) ELSE s
    IN  IF body = <<>> \/ \E i \in 1..Len(body) : ~IsDigit(body[i])
        THEN [ok |-> FALSE, val |-> 0]
        ELSE [ok |-> TRUE,
              val |-> IF signed /\ s[1] = "-" THEN -natValue(body)
                      ELSE natValue(body)]

\* the key of a tree in a Collection, and the name of a tree read by ReadTSV
treeKey(name) ==
    LET joined == Join(Fields(name))
    IN  [i \in 1..Len(joined) |-> ToLower(joined[i])]

\* node.tsv: the row of a node
tsvRow(h, o, name) ==
    [tree |-> name,
     node |-> Itoa(h[o].id),
     parent |-> IF h[o].parent = nil THEN <<"-", "1">>
                ELSE Itoa(h[h[o].parent].id),
     age |-> Itoa(h[o].age),
     taxon |-> h[o].taxon]

\* Tree.tsv: the rows of the nodes below the root, a node before its children
tsvRows(h, r, name) ==
    LET ns == preOrder(h, r)
    IN  [i \in 1..Len(ns) |-> tsvRow(h, ns[i], name)]

\* a Tree that has no node yet, as ReadTSV makes it for a new name
EmptyTree == [heap |-> <<>>, nodes |-> <<>>, taxa |-> <<>>, root |-> nil]

\* One turn of the loop of ReadTSV on a row of the tree t: the error, or the
\* tree with the node of the row.  A parent ID that is not in t.nodes leaves
\* p nil: err is nil where the code tests it.
readRow(t, row) ==
    LET id == Atoi(row.node)
        pID == Atoi(row.parent)
        age == Atoi(row.age)
        tax == canon(row.taxon)
        p == IF pID.val >= 0 /\ pID.val \in DOMAIN t.nodes
             THEN t.nodes[pID.val] ELSE nil
        n == Len(t.heap) + 1
        made == [id |-> id.val, parent |-> p, age |-> age.val, taxon |-> tax,
                 brLen |-> IF p # nil THEN t.heap[p].age - age.val ELSE 0,
                 children |-> <<>>]
        grown == Append(t.heap, made)
    IN  IF ~id.ok THEN [err |-> "Syntax", tree |-> t]
        ELSE IF id.val \in DOMAIN t.nodes THEN [err |-> "IDUsed", tree |-> t]
        ELSE IF ~pID.ok THEN [err |-> "Syntax", tree |-> t]
        ELSE IF pID.val < 0 /\ t.root # nil
        THEN [err |-> "RootDefined", tree |-> t]
        ELSE IF ~age.ok THEN [err |-> "Syntax", tree |-> t]
        ELSE IF p # nil /\ t.heap[p].age < age.val
        THEN [err |-> "AgeOrder", tree |-> t]
        ELSE IF tax # <<>> /\ tax \in DOMAIN t.taxa
        THEN [err |-> "RepeatedTaxon", tree |-> t]
        ELSE [err |-> "",
              tree |->
                 [heap |-> IF p # nil
                           THEN [grown EXCEPT ![p].children = Append(@, n)]
                           ELSE grown,
                  nodes |-> [k \in DOMAIN t.nodes \cup {id.val} |->
                                IF k = id.val THEN n ELSE t.nodes[k]],
                  taxa |-> IF tax = <<>> THEN t.taxa
                           ELSE [k \in DOMAIN t.taxa \cup {tax} |->
                                    IF k = tax THEN n ELSE t.taxa[k]],
                  root |-> IF p # nil THEN t.root ELSE n]]

\* the loop of ReadTSV over the rows of one tree, from the i-th row on; a
\* row without a tree name is skipped
RECURSIVE readRows(_, _, _)
readRows(t, rows, i) ==
    IF i > Len(rows) THEN [err |-> "", tree |-> t]
    ELSE IF treeKey(rows[i].tree) = <<>> THEN readRows(t, rows, i + 1)
    ELSE LET r == readRow(t, rows[i])
         IN  IF r.err # "" THEN r ELSE readRows(r.tree, rows, i + 1)

\* t.sortNodes(): the canonical ordering of a tree that was read
sortNodes(t) == formatTree(t)

\* the errors Validate can return on the tree t, "" if it returns nil
validateErrors(t) ==
    LET bad == { ValidateNode(t.heap, n) : n \in Range(t.nodes) } \ {""}
    IN  IF bad = {} THEN {""} ELSE bad

\* the names a tree can have been made with
TreeNames == { <<"t">>, <<"T">> }

\* c.Add(t) on a new Collection, then c.TSV(w), for a tree made with a name.
\* Add files the tree under treeKey(name); TSV looks every name of Names()
\* up in c.trees and calls tsv on what it finds, nil if the name is not its
\* own key.  The result is the rows written after the header.
TSV(name) ==
    IF treeKey(name) = <<>>
    THEN Fail("TSV", <<name>>, "TreeNoName", NoID, "add")
    ELSE IF name # treeKey(name)
    THEN Fail("TSV", <<name>>, "panic", NoID, "niltree")
    ELSE IF \E o \in Subtree(heap, root) :
                \E i \in 1..Len(heap[o].children) : heap[o].children[i] = nil
    THEN Fail("TSV", <<name>>, "panic", NoID, "nilchild")
    ELSE Fail("TSV", <<name>>, "", tsvRows(heap, root, name), "rows")

\* ReadTSV on rows: the tree it returns, or its error.  Which error Validate
\* returns on a tree with several bad nodes depends on the order of a map.
ReadTSV(rows) ==
    \E r \in {readRows(EmptyTree, rows, 1)} :
        IF r.err # ""
        THEN Fail("ReadTSV", <<rows>>, r.err, NoID, "row")
        ELSE \E t \in {sortNodes(r.tree)} :
                 \E e \in validateErrors(t) :
                     IF e # ""
                     THEN Fail("ReadTSV", <<rows>>, e, NoID, "validate")
                     ELSE Fail("ReadTSV", <<rows>>, "",
                               [heap |-> t.heap, nodes |-> t.nodes,
                                taxa |-> t.taxa, root |-> t.root,
                                name |-> treeKey(rows[1].tree)],
                               "read")

-----------------------------------------------------------------------------
(* Newick *)

\* the factor from million years, the unit of a Newick text, to years
millionYears == 1000000

\* the result of a read on the text: the error, the place of the next rune
\* and what was read
Read(err, pos, val) == [err |-> err, pos |-> pos, val |-> val]

\* readBlock: the runes up to the delimiter, without ( ) : and ,
RECURSIVE readBlock(_, _, _, _)
readBlock(text, pos, delim, b) ==
    IF pos > Len(text) THEN Read("EOF", pos, <<>>)
    ELSE IF text[pos] = delim THEN Read("", pos + 1, b)
    ELSE IF text[pos] \in {"(", ")", ":", ","}
    THEN readBlock(text, pos + 1, delim, b)
    ELSE readBlock(text, pos + 1, delim, Append(b, text[pos]))

\* readBrLen, the value: strconv.ParseFloat (modelled on the decimal
\* integers), no negative length, and a year for a length below it
parsedBrLen(v) ==
    IF ~v.ok \/ v.val < 0 THEN [err |-> "InvalidBrLen", val |-> 0]
    ELSE IF v.val = 0 THEN [err |-> "", val |-> 1]
    ELSE [err |-> "", val |-> v.val * millionYears]

brLenValue(s) == parsedBrLen(Atoi(s))

brLenRead(pos, v) == Read(v.err, pos, v.val)

\* readBrLen, after the colon: the runes up to a space or comma (read) or a
\* parenthesis (left); at the end of the text the length is 0 without error
RECURSIVE readBrLenNumber(_, _, _)
readBrLenNumber(text, pos, b) ==
    IF pos > Len(text) THEN Read("", pos, 0)
    ELSE IF text[pos] \in {" ", ","} THEN brLenRead(pos + 1, brLenValue(b))
    ELSE IF text[pos] \in {"(", ")"} THEN brLenRead(pos, brLenValue(b))
    ELSE readBrLenNumber(text, pos + 1, Append(b, text[pos]))

\* readBrLen, up to the colon
RECURSIVE readBrLen(_, _)
RECURSIVE readBrLenAfter(_, _)
readBrLen(text, pos) ==
    IF pos > Len(text) THEN Read("EOF", pos, 0)
    ELSE IF text[pos] = ":" THEN readBrLenNumber(text, pos + 1, <<>>)
    ELSE IF text[pos] \in {",", " "} THEN Read("", pos + 1, 0)
    ELSE IF text[pos] = "'"
    THEN readBrLenAfter(text, readBlock(text, pos + 1, "'", <<>>))
    ELSE IF text[pos] \in {"(", ")", ";"} THEN Read("", pos, 0)
    ELSE readBrLen(text, pos + 1)

\* readBrLen, after a quoted block
readBrLenAfter(text, blk) ==
    IF blk.err # "" THEN Read(blk.err, blk.pos, 0) ELSE readBrLen(text, blk.pos)

RECURSIVE readName(_, _, _)
readName(text, pos, b) ==
    IF pos > Len(text) THEN Read("EOF", pos, <<>>)
    ELSE IF text[pos] = " " THEN Read("", pos + 1, b)
    ELSE IF text[pos] \in {"(", ")", ":", ","} THEN Read("", pos, b)
    ELSE IF text[pos] = "_" THEN readName(text, pos + 1, Append(b, " "))
    ELSE readName(text, pos + 1, Append(b, text[pos]))

\* readTerm: the name of a terminal and its branch length
Term(err, pos, name, bl) == [err |-> err, pos |-> pos, name |-> name, bl |-> bl]

termBrLen(name, bl) == Term(bl.err, bl.pos, name, bl.val)

termName(text, nm) ==
    IF nm.err # "" THEN Term(nm.err, nm.pos, <<>>, 0)
    ELSE IF canon(nm.val) = <<>> THEN Term("UnnamedTerm", nm.pos, <<>>, 0)
    ELSE termBrLen(canon(nm.val), readBrLen(text, nm.pos))

readTerm(text, pos) ==
    termName(text, IF text[pos] = "'" THEN readBlock(text, pos + 1, "'", <<>>)
                   ELSE readName(text, pos, <<>>))

\* a node as readNewick makes it
newickNode(id, parent, taxon, brLen) ==
    [id |-> id, parent |-> parent, age |-> 0, taxon |-> taxon,
     brLen |-> brLen, children |-> <<>>]

\* the tree being read: the nodes made so far and t.taxa
Parsed(err, pos, h, tx, node) ==
    [err |-> err, pos |-> pos, heap |-> h, taxa |-> tx, node |-> node]

\* readNewick: the loop over the runes of a group for the node n
RECURSIVE readNewickLoop(_, _, _, _, _)
RECURSIVE readNewickGroup(_, _, _)
RECURSIVE readNewickTerm(_, _, _, _, _)

\* readNewick, at the end of the group: the branch length of the node
readNewickBrLen(h, tx, n, bl) ==
    IF bl.err # "" THEN Parsed(bl.err, bl.pos, h, tx, n)
    ELSE Parsed("", bl.pos, [h EXCEPT ![n].brLen = bl.val], tx, n)

readNewickEnd(text, after, h, tx, n) ==
    IF Len(h[n].children) < 2 THEN Parsed("SingleChild", after, h, tx, n)
    ELSE readNewickBrLen(h, tx, n, readBrLen(text, after))

readNewickLoop(text, pos, h, tx, n) ==
    IF pos > Len(text) THEN Parsed("EOF", pos, h, tx, n)
    ELSE IF text[pos] = ":" THEN Parsed("UnexpBrLen", pos, h, tx, n)
    ELSE IF text[pos] \in {" ", ","} THEN readNewickLoop(text, pos + 1, h, tx, n)
    ELSE IF text[pos] = "("
    THEN readNewickGroup(
             text, n,
             readNewickLoop(text, pos + 1,
                            Append(h, newickNode(Len(h), n, <<>>, 0)),
                            tx, Len(h) + 1))
    ELSE IF text[pos] = ")" THEN readNewickEnd(text, pos + 1, h, tx, n)
    ELSE IF text[pos] = ";" THEN readNewickEnd(text, pos, h, tx, n)
    ELSE readNewickTerm(text, h, tx, n, readTerm(text, pos))

\* readNewick, after the group of a child: the child is added to the node
readNewickGroup(text, n, sub) ==
    IF sub.err # "" THEN sub
    ELSE readNewickLoop(text, sub.pos,
                        [sub.heap EXCEPT ![n].children = Append(@, sub.node)],
                        sub.taxa, n)

\* readNewick, after a terminal is read: the terminal is added to the node
readNewickTerm(text, h, tx, n, term) ==
    IF term.err # "" THEN Parsed(term.err, term.pos, h, tx, n)
    ELSE IF term.name \in DOMAIN tx
    THEN Parsed("RepeatedTaxon", term.pos, h, tx, n)
    ELSE readNewickLoop(
             text, term.pos,
             [Append(h, newickNode(Len(h), n, term.name, term.bl))
                 EXCEPT ![n].children = Append(@, Len(h) + 1)],
             [k \in DOMAIN tx \cup {term.name} |->
                 IF k = term.name THEN Len(h) + 1 ELSE tx[k]],
             n)

\* readNewick(r, nil, &last) on a new tree
readNewick(text, pos) ==
    readNewickLoop(text, pos, <<newickNode(0, nil, <<>>, 0)>>, <<>>, 1)

\* the place after the first ( from pos on, 0 if there is none
firstParen(text, pos) ==
    IF \E i \in pos..Len(text) : text[i] = "("
    THEN 1 + CHOOSE i \in pos..Len(text) :
                 text[i] = "(" /\ \A j \in pos..(i - 1) : text[j] # "("
    ELSE 0

\* newick: the next tree of the text from pos on; there is none at the end
\* of the text
NewickTree(err, pos, none, t) ==
    [err |-> err, pos |-> pos, none |-> none, tree |-> t]

newickAged(p, aged) ==
    NewickTree("", p.pos, FALSE,
               sortNodes([heap |-> aged,
                          nodes |-> [k \in 0..(Len(aged) - 1) |-> k + 1],
                          taxa |-> p.taxa,
                          root |-> 1]))

newickAge(p, max, age) ==
    IF max > age THEN NewickTree("InvalidRootAge", p.pos, TRUE, nil)
    ELSE newickAged(p, propagateAge([p.heap EXCEPT ![1].age = age], 1))

newickMax(p, max, age) == newickAge(p, max, IF age = 0 THEN max ELSE age)

newickRoot(p, age) ==
    IF p.err # "" THEN NewickTree(p.err, p.pos, TRUE, nil)
    ELSE newickMax(p, maxLen(p.heap, 1), age)

newickFrom(text, start, age) ==
    IF start = 0 THEN NewickTree("", Len(text) + 1, TRUE, nil)
    ELSE newickRoot(readNewick(text, start), age)

newick(text, pos, age) == newickFrom(text, firstParen(text, pos), age)

\* the loop of Newick: the trees read so far, then the next one
Trees(err, trees) == [err |-> err, trees |-> trees]

RECURSIVE newickTrees(_, _, _, _)
RECURSIVE newickNext(_, _, _, _)
newickTrees(text, pos, age, trees) ==
    newickNext(text, age, trees, newick(text, pos, age))

newickNext(text, age, trees, t) ==
    IF t.err # "" THEN Trees(t.err, <<>>)
    ELSE IF t.none
    THEN IF trees = <<>> THEN Trees("NotNewick", <<>>) ELSE Trees("", trees)
    ELSE newickTrees(text, t.pos, age, Append(trees, t.tree))

\* Newick(r, name, age) with a name that is not empty: the trees of the
\* collection in the order of the text, none with an error
Newick(text, age) ==
    \E c \in {newickTrees(text, 1, age, <<>>)} :
        Fail("Newick", <<text, age>>, c.err, c.trees, "")

-----------------------------------------------------------------------------
(* Nexus *)

\* strings.ToLower of a token
Lower(s) == [i \in 1..Len(s) |-> ToLower(s[i])]

\* skipComment: the place after the next ]
skipComment(text, pos) ==
    IF \E i \in pos..Len(text) : text[i] = "]"
    THEN Read("", 1 + CHOOSE i \in pos..Len(text) :
                        text[i] = "]" /\ \A j \in pos..(i - 1) : text[j] # "]",
              <<>>)
    ELSE Read("EOF", Len(text) + 1, <<>>)

\* skipSpaces: the place of the next rune that is no space and in no comment
RECURSIVE skipSpaces(_, _)
RECURSIVE skipSpacesAfter(_, _)
skipSpaces(text, pos) ==
    IF pos > Len(text) THEN Read("EOF", pos, <<>>)
    ELSE IF text[pos] = "[" THEN skipSpacesAfter(text, skipComment(text, pos + 1))
    ELSE IF ~IsSpace(text[pos]) THEN Read("", pos, <<>>)
    ELSE skipSpaces(text, pos + 1)

skipSpacesAfter(text, c) == IF c.err # "" THEN c ELSE skipSpaces(text, c.pos)

\* a token with its delimiter
Token(err, pos, token, delim) ==
    [err |-> err, pos |-> pos, token |-> token, delim |-> delim]

\* readToken, in a quoted block
RECURSIVE readQuoted(_, _, _, _)
readQuoted(text, pos, stop, b) ==
    IF pos > Len(text) THEN Token("EOF", pos, b, "")
    ELSE IF text[pos] = stop
    THEN IF pos + 1 > Len(text) THEN Token("EOF", pos + 1, b, "")
         ELSE IF text[pos + 1] # stop THEN Token("", pos + 1, b, " ")
         ELSE IF stop = "'" THEN readQuoted(text, pos + 2, stop, b)
         ELSE readQuoted(text, pos + 2, stop, Append(b, text[pos]))
    ELSE readQuoted(text, pos + 1, stop, Append(b, text[pos]))

\* readToken, outside quotes
RECURSIVE readBare(_, _, _)
readBare(text, pos, b) ==
    IF pos > Len(text) THEN Token("EOF", pos, b, "")
    ELSE IF IsSpace(text[pos]) THEN Token("", pos + 1, b, " ")
    ELSE IF text[pos] \in {";", ",", "/", "="}
    THEN Token("", pos + 1, b, text[pos])
    ELSE readBare(text, pos + 1, Append(b, text[pos]))

\* readToken, after a token that ends with a space: the delimiter that
\* follows the spaces
readTokenDelim(text, t, s) ==
    IF s.err # "" THEN Token(s.err, s.pos, t.token, "")
    ELSE IF text[s.pos] \in {";", ",", "/", "="}
    THEN Token("", s.pos + 1, t.token, text[s.pos])
    ELSE Token("", s.pos, t.token, " ")

readTokenEnd(text, t) ==
    IF t.err # "" THEN t
    ELSE IF t.delim # " " THEN t
    ELSE readTokenDelim(text, t, skipSpaces(text, t.pos))

readTokenAt(text, s) ==
    IF s.err # "" THEN Token(s.err, s.pos, <<>>, "")
    ELSE readTokenEnd(text, IF text[s.pos] \in {"'", "\""}
                            THEN readQuoted(text, s.pos + 1, text[s.pos], <<>>)
                            ELSE readBare(text, s.pos, <<>>))

readToken(text, pos) == readTokenAt(text, skipSpaces(text, pos))

\* skipBlock: the place after the next end or endblock
RECURSIVE skipBlock(_, _)
RECURSIVE skipBlockToken(_, _)
skipBlock(text, pos) == skipBlockToken(text, readToken(text, pos))

skipBlockToken(text, t) ==
    IF Lower(t.token) \in {<<"e", "n", "d">>, <<"e", "n", "d", "b", "l", "o", "c", "k">>} THEN Read("", t.pos, <<>>)
    ELSE IF t.err # "" THEN Read(t.err, t.pos, <<>>)
    ELSE skipBlock(text, t.pos)

\* skipDefinition: the place after the next token that ends with ;
RECURSIVE skipDefinition(_, _)
RECURSIVE skipDefinitionToken(_, _)
skipDefinition(text, pos) == skipDefinitionToken(text, readToken(text, pos))

skipDefinitionToken(text, t) ==
    IF t.delim = ";" THEN Read("", t.pos, <<>>)
    ELSE IF t.err # "" THEN Read(t.err, t.pos, <<>>)
    ELSE skipDefinition(text, t.pos)

\* strings.ReplaceAll(s, "_", " ")
Underscores(s) == [i \in 1..Len(s) |-> IF s[i] = "_" THEN " " ELSE s[i]]

\* labels[label] = taxName
withLabel(labels, label, taxName) ==
    [k \in DOMAIN labels \cup {label} |->
        IF k = label THEN taxName ELSE labels[k]]

\* readTranslate: the table, from the entry i + 1 on
RECURSIVE readTranslate(_, _, _, _)
RECURSIVE readTranslateKey(_, _, _, _)
RECURSIVE readTranslateName(_, _, _, _)
readTranslate(text, pos, i, labels) ==
    readTranslateKey(text, i, labels, readToken(text, pos))

readTranslateName(text, i, added, name) ==
    IF name.delim = ";" THEN Read("", name.pos, added)
    ELSE readTranslate(text, name.pos, i + 1, added)

readTranslateTaxon(text, i, labels, label, name) ==
    IF name.err # "" THEN Read(name.err, name.pos, <<>>)
    ELSE readTranslateName(
             text, i,
             withLabel(labels, label, canon(Underscores(name.token))), name)

readTranslateID(text, i, labels, key, id) ==
    IF ~id.ok \/ id.val # i + 1 THEN Read("Translate", key.pos, <<>>)
    ELSE readTranslateTaxon(text, i, labels, key.token, readToken(text, key.pos))

readTranslateKey(text, i, labels, key) ==
    IF key.err # "" THEN Read(key.err, key.pos, <<>>)
    ELSE readTranslateID(text, i, labels, key, Atoi(key.token))

\* readTreeNewick: the name and the tree of a tree statement
NamedTree(err, name, pos, t) ==
    [err |-> err, name |-> name, pos |-> pos, tree |-> t]

readTreeDelim(name, t, delim) ==
    IF delim.err # "" THEN NamedTree(delim.err, <<>>, delim.pos, nil)
    ELSE IF delim.delim # ";" THEN NamedTree("Delimiter", <<>>, delim.pos, nil)
    ELSE NamedTree("", name, delim.pos, t.tree)

readTreeBody(text, name, t) ==
    IF t.err # "" THEN NamedTree(t.err, <<>>, t.pos, nil)
    ELSE readTreeDelim(name, t, readToken(text, t.pos))

readTreeSpaces(text, name, s, age) ==
    IF s.err # "" THEN NamedTree(s.err, <<>>, s.pos, nil)
    ELSE readTreeBody(text, name, newick(text, s.pos, age))

readTreeName(text, name, age) ==
    IF name.err # "" THEN NamedTree(name.err, <<>>, name.pos, nil)
    ELSE readTreeSpaces(text, Lower(name.token), skipSpaces(text, name.pos), age)

readTreeNewick(text, pos, age) == readTreeName(text, readToken(text, pos), age)

\* Terms: the names of the terminals in t.taxa, sorted
RECURSIVE SortNames(_)
SortNames(S) ==
    IF S = {} THEN <<>>
    ELSE LET first == CHOOSE x \in S : \A y \in S \ {x} : StrLess(x, y)
         IN  <<first>> \o SortNames(S \ {first})

Terms(t) ==
    SortNames({ t.heap[n].taxon : n \in { m \in Range(t.taxa) : isTerm(t.heap, m) } })

\* SetName on a tree that is read; the result is the tree SetName leaves
setNameOf(t, n, cname, rest) ==
    IF cname = <<>>
    THEN IF isTerm(t.heap, n) \/ t.heap[n].taxon = <<>> THEN t
         ELSE [t EXCEPT !.taxa = rest, !.heap[n].taxon = ClearedTaxon(@)]
    ELSE IF SetNameDup(t.taxa, cname, n) THEN t
    ELSE [t EXCEPT !.taxa = (cname :> n) @@ rest, !.heap[n].taxon = cname]

setName(t, id, name) ==
    IF id \notin DOMAIN t.nodes THEN t
    ELSE setNameOf(t, t.nodes[id], canon(name),
                   IF t.heap[t.nodes[id]].taxon # <<>>
                   THEN Restrict(t.taxa, DOMAIN t.taxa \ {t.heap[t.nodes[id]].taxon})
                   ELSE t.taxa)

\* translateTree: the terminals named by a key of the table, in the order of
\* Terms, are given the name of the table; the error of SetName is dropped
translateNode(t, nID, tax) == IF nID = NoID THEN t ELSE setName(t, nID, tax)

RECURSIVE translateFrom(_, _, _, _)
translateFrom(t, labels, ids, i) ==
    IF i > Len(ids) THEN t
    ELSE IF ids[i] \notin DOMAIN labels
    THEN translateFrom(t, labels, ids, i + 1)
    ELSE translateFrom(
             translateNode(t, TaxNode(t.heap, t.taxa, ids[i]), labels[ids[i]]),
             labels, ids, i + 1)

translateTree(t, labels) ==
    IF DOMAIN labels = {} THEN t ELSE translateFrom(t, labels, Terms(t), 1)

\* Nexus, in the trees block: the table, a tree statement, or a definition
\* that is skipped
RECURSIVE nexusTrees(_, _, _, _, _)
RECURSIVE nexusWord(_, _, _, _, _)
RECURSIVE nexusTable(_, _, _, _)
RECURSIVE nexusTree(_, _, _, _, _)
RECURSIVE nexusSkip(_, _, _, _, _)
nexusTrees(text, pos, age, labels, trees) ==
    nexusWord(text, age, labels, trees, readToken(text, pos))

nexusTable(text, age, trees, table) ==
    IF table.err # "" THEN Trees(table.err, <<>>)
    ELSE nexusTrees(text, table.pos, age, table.val, trees)

nexusTree(text, age, labels, trees, tr) ==
    IF tr.err # "" THEN Trees(tr.err, <<>>)
    ELSE IF treeKey(tr.name) = <<>> THEN Trees("TreeNoName", <<>>)
    ELSE IF \E i \in 1..Len(trees) : treeKey(trees[i].name) = treeKey(tr.name)
    THEN Trees("TreeRepeated", <<>>)
    ELSE nexusTrees(text, tr.pos, age, labels,
                    Append(trees,
                           [name |-> tr.name] @@ translateTree(tr.tree, labels)))

nexusSkip(text, age, labels, trees, skip) ==
    IF skip.err # "" THEN Trees(skip.err, <<>>)
    ELSE nexusTrees(text, skip.pos, age, labels, trees)

nexusWord(text, age, labels, trees, t) ==
    IF t.err # "" THEN Trees(t.err, <<>>)
    ELSE IF Lower(t.token) \in {<<"e", "n", "d">>, <<"e", "n", "d", "b", "l", "o", "c", "k">>}
    THEN IF trees = <<>> THEN Trees("NoTrees", <<>>) ELSE Trees("", trees)
    ELSE IF Lower(t.token) = <<"t", "r", "a", "n", "s", "l", "a", "t", "e">>
    THEN nexusTable(text, age, trees, readTranslate(text, t.pos, 0, <<>>))
    ELSE IF Lower(t.token) = <<"t", "r", "e", "e">>
    THEN nexusTree(text, age, labels, trees, readTreeNewick(text, t.pos, age))
    ELSE nexusSkip(text, age, labels, trees, skipDefinition(text, t.pos))

\* Nexus, up to the trees block
RECURSIVE nexusBlocks(_, _, _)
RECURSIVE nexusBegin(_, _, _)
RECURSIVE nexusBlock(_, _, _)
RECURSIVE nexusOther(_, _, _)
nexusBlocks(text, pos, age) == nexusBegin(text, age, readToken(text, pos))

nexusOther(text, age, skip) ==
    IF skip.err # "" THEN Trees(skip.err, <<>>)
    ELSE nexusBlocks(text, skip.pos, age)

nexusBlock(text, age, block) ==
    IF block.err # "" THEN Trees(block.err, <<>>)
    ELSE IF Lower(block.token) = <<"t", "r", "e", "e", "s">>
    THEN nexusTrees(text, block.pos, age, <<>>, <<>>)
    ELSE nexusOther(text, age, skipBlock(text, block.pos))

nexusBegin(text, age, begin) ==
    IF begin.err # "" THEN Trees(begin.err, <<>>)
    ELSE IF Lower(begin.token) # <<"b", "e", "g", "i", "n">> THEN Trees("Begin", <<>>)
    ELSE nexusBlock(text, age, readToken(text, begin.pos))

nexusHeader(text, age, header) ==
    IF header.err # "" THEN Trees(header.err, <<>>)
    ELSE IF Lower(header.token) # <<"#", "n", "e", "x", "u", "s">> THEN Trees("Header", <<>>)
    ELSE nexusBlocks(text, header.pos, age)

\* Nexus(r, age): the trees of the collection in the order of the text
Nexus(text, age) ==
    \E c \in {nexusHeader(text, age, readToken(text, 1))} :
        Fail("Nexus", <<text, age>>, c.err, c.trees, "")

-----------------------------------------------------------------------------
(* The callers *)

Ready == res.wrote /\ calls < MaxCalls

\* the IDs a caller passes: those of the tree, one that is not in it (every
\* ID that is not in t.nodes takes the same path), and the ID of a Delete that
\* has just returned, to repeat the call
IDs ==
    DOMAIN nodes \cup {AbsentID}
        \cup (IF res.op = "Delete" THEN {res.args[1]} ELSE {})

AddCall ==
    /\ Ready
    /\ \E id \in IDs, brLen \in BrLens, name \in RawNames : Add(id, brLen, name)

AddSisterCall ==
    /\ Ready
    /\ \E id \in IDs, age \in Ages, brLen \in BrLens, name \in RawNames :
           AddSister(id, age, brLen, name)

DeleteCall == Ready /\ \E id \in IDs : Delete(id)

MoveCall == Ready /\ \E age \in Ages : Move(age)

SetCall == Ready /\ \E id \in IDs, age \in Ages : Set(id, age)

SetNameCall == Ready /\ \E id \in IDs, name \in RawNames : SetName(id, name)

FormatCall == Ready /\ Format

Next ==
    \/ AddCall
    \/ AddSisterCall
    \/ DeleteCall
    \/ MoveCall
    \/ SetCall
    \/ SetNameCall
    \/ FormatCall

Spec == Init /\ [][Next]_vars

\* The queries, on trees built with two names.
AddNamedCall ==
    /\ Ready
    /\ \E id \in IDs, brLen \in NamedBrLens, name \in QueryNames :
           Add(id, brLen, name)

SetNameNamedCall ==
    Ready /\ \E id \in IDs, name \in QueryNames : SetName(id, name)

\* a query does not count as a call that changes the tree
MRCACall == res.wrote /\ \E names \in NameLists : MRCAQuery(names)

ValidateCall == res.wrote /\ Validate

SubTreeCall ==
    res.wrote /\ \E id \in IDs, name \in QueryNames : SubTree(id, name)

TSVCall == res.wrote /\ \E name \in TreeNames : TSV(name)

\* the output of TSV is read back
ReadTSVCall == res.op = "TSV" /\ res.path = "rows" /\ ReadTSV(res.ret)

NextQuery ==
    \/ AddNamedCall
    \/ DeleteCall
    \/ SetNameNamedCall
    \/ MRCACall
    \/ ValidateCall
    \/ SubTreeCall
    \/ TSVCall
    \/ ReadTSVCall

SpecQuery == Init /\ [][NextQuery]_vars

\* The parsers read a text into trees of their own: no tree exists before
\* the call, and the text is what the reader given to the call holds.
InitParse ==
    /\ heap = <<>>
    /\ nodes = <<>>
    /\ taxa = <<>>
    /\ root = nil
    /\ calls = 0
    /\ res = [Result("Reader", <<>>, "", <<>>, "") EXCEPT !.wrote = FALSE]

NewickCall ==
    /\ res.op = "Reader"
    /\ \E text \in NewickTexts, age \in NewickAges : Newick(text, age)

NexusCall ==
    /\ res.op = "Reader"
    /\ \E text \in NexusTexts, age \in NewickAges : Nexus(text, age)

\* ReadTSV on a table that was not written by TSV
ReadTableCall ==
    /\ res.op = "Reader"
    /\ \E rows \in Tables : ReadTSV(rows)

NextParse ==
    \/ NewickCall
    \/ NexusCall
    \/ ReadTableCall

SpecParse == InitParse /\ [][NextParse]_vars

-----------------------------------------------------------------------------
(* Invariants of a tree *)

\* C1: no node is older than its parent: for every node n that is not the
\* root, age(parent(n)) >= age(n), after every mutator and for any arguments.
C1_ParentNotYounger ==
    \A n \in Reached \cup Listed :
        heap[n].parent # nil => heap[heap[n].parent].age >= heap[n].age

\* C2: no two distinct nodes of a tree have the same ID.
C2_UniqueIDs ==
    \A a, b \in Reached \cup Listed : a # b => heap[a].id # heap[b].id

\* C3: no two distinct nodes that Nodes() lists carry the same non-empty taxon
\* name (what Taxon returns for their IDs).
C3_UniqueTaxa ==
    \A a, b \in Listed :
        (a # b /\ heap[a].taxon # <<>>) => heap[a].taxon # heap[b].taxon

\* C4: the tree has exactly one root, the only node without a parent, and a
\* node is listed by Nodes() exactly when it is reached from the root through
\* child links.
C4_OneRootAllReached ==
    /\ root \in Listed
    /\ \A n \in Listed : heap[n].parent = nil <=> n = root
    /\ Listed = Reached

-----------------------------------------------------------------------------
(* Add *)

\* the children of the node with an ID, in the order of its children slice
Kin(h, ns, id) == ChildIDs(h, ns[id])

\* the fields of a node that a call on other nodes must keep
Kept(id) ==
    /\ Parent(heap', nodes', id) = Parent(heap, nodes, id)
    /\ Age(heap', nodes', id) = Age(heap, nodes, id)
    /\ Taxon(heap', nodes', id) = Taxon(heap, nodes, id)

\* the step is a call of op that returned -1 and the error e, and left the
\* tree as it was
Rejected(e) ==
    /\ res'.err = e
    /\ res'.ret = NoID
    /\ UNCHANGED tree

\* the step is a call of op that returned without an error
Succeeded(op) == res'.op = op /\ res'.err = "" /\ res'.wrote

AddPost(id, brLen, name) ==
    LET before == Nodes(heap, nodes)
        new == res'.ret
    IN  /\ new = Cardinality(before)
        /\ new \notin before
        /\ Nodes(heap', nodes') = before \cup {new}
        /\ IsTerm(heap', nodes', new)
        /\ Parent(heap', nodes', new) = id
        /\ Age(heap', nodes', new) = Age(heap, nodes, id) - brLen
        /\ Taxon(heap', nodes', new) = canon(name)
        /\ Kin(heap', nodes', id) = Append(Kin(heap, nodes, id), new)
        /\ \A k \in before :
               /\ Kept(k)
               /\ k # id => Kin(heap', nodes', k) = Kin(heap, nodes, k)

\* C5: a successful Add(id, brLen, name) returns the number of nodes before
\* the call, an ID that was not in the tree, and adds exactly that node: a
\* terminal, the last child of id, of age age(id) - brLen and taxon
\* canon(name); no other node's parent, age, taxon or children order changes.
C5_AddContract ==
    [][Succeeded("Add") =>
           AddPost(res'.args[1], res'.args[2], res'.args[3])]_vars

\* whether a name is, in its canonical form, a taxon of the tree
Used(name) == canon(name) # <<>> /\ canon(name) \in Taxa(heap, taxa)

AddErrors(id, brLen, name) ==
    LET known == id \in Nodes(heap, nodes)
    IN  /\ ~known => Rejected("NoParent")
        /\ (known /\ Used(name)) => Rejected("RepeatedTaxon")
        /\ (known /\ ~Used(name) /\ brLen > Age(heap, nodes, id))
               => Rejected("InvalidBrLen")

\* C6: Add returns -1 and an error, and leaves the tree unchanged: NoParent
\* when id is not in the tree; otherwise RepeatedTaxon when the canonical form
\* of a non-empty name is a taxon of the tree; otherwise InvalidBrLen when
\* brLen > age(id).
C6_AddErrors ==
    [][res'.op = "Add" =>
           AddErrors(res'.args[1], res'.args[2], res'.args[3])]_vars

\* Add of "a" to a tree with the taxon "A" was rejected
C6_Witness ==
    /\ res.op = "Add"
    /\ res.args[3] = <<"a">>
    /\ res.err = "RepeatedTaxon"
    /\ res.ret = NoID
    /\ Taxa(heap, taxa) = {<<"A">>}

-----------------------------------------------------------------------------
(* AddSister *)

\* a sequence with every x replaced by y
Replaced(seq, x, y) == [i \in DOMAIN seq |-> IF seq[i] = x THEN y ELSE seq[i]]

AddSisterPost(x, a, b, name) ==
    LET before == Nodes(heap, nodes)
        new == res'.ret
        par == new - 1
        old == Parent(heap, nodes, x)
    IN  /\ old \in before
        /\ new \notin before
        /\ par \notin before
        /\ Nodes(heap', nodes') = before \cup {par, new}
        /\ Age(heap', nodes', par) = a + b
        /\ Age(heap', nodes', new) = a
        /\ Taxon(heap', nodes', new) = canon(name)
        /\ Parent(heap', nodes', par) = old
        /\ Kin(heap', nodes', old) = Replaced(Kin(heap, nodes, old), x, par)
        /\ Parent(heap', nodes', x) = par
        /\ Parent(heap', nodes', new) = par
        /\ Kin(heap', nodes', par) = <<x, new>>
        /\ Age(heap', nodes', old) = Age(heap, nodes, old)

\* C7: a successful AddSister(x, a, b, name) adds two nodes to the tree: N,
\* with the returned ID, of age a and taxon canon(name), and P, with the
\* returned ID minus 1, of age a + b; P takes the place of x among the
\* children of x's old parent, whose age and other children are unchanged;
\* the children of P are x then N.
C7_AddSisterContract ==
    [][Succeeded("AddSister") =>
           AddSisterPost(res'.args[1], res'.args[2], res'.args[3],
                         res'.args[4])]_vars

\* the age of the parent of the node with an ID that is not the root
ParentAge(id) == heap[heap[nodes[id]].parent].age

AddSisterErrors(x, a, b, name) ==
    LET known == x \in Nodes(heap, nodes)
        isRoot == Root(heap, root) = x /\ IsRoot(heap, nodes, x)
        sister == known /\ ~isRoot /\ ~Used(name)
        younger == a + b < Age(heap, nodes, x)
    IN  /\ ~known => Rejected("NoSister")
        /\ (known /\ isRoot) => Rejected("RootSister")
        /\ (known /\ ~isRoot /\ Used(name)) => Rejected("RepeatedTaxon")
        /\ (sister /\ younger) => Rejected("YoungerAge")
        /\ (sister /\ ~younger /\ Parent(heap, nodes, x) # NoID
                /\ ParentAge(x) <= a + b) => Rejected("OlderAge")

\* C8: AddSister returns -1 and an error, and leaves the tree unchanged:
\* NoSister when x is not in the tree; otherwise RootSister when x is the
\* root; otherwise RepeatedTaxon when the canonical form of a non-empty name
\* is a taxon of the tree; otherwise YoungerAge when a + b < age(x); otherwise
\* OlderAge when age(parent of x) <= a + b.
C8_AddSisterErrors ==
    [][res'.op = "AddSister" =>
           AddSisterErrors(res'.args[1], res'.args[2], res'.args[3],
                           res'.args[4])]_vars

\* AddSister was rejected because the new parent would be as old as the
\* parent of the sister
C8_Witness ==
    /\ res.op = "AddSister"
    /\ res.err = "OlderAge"
    /\ res.ret = NoID
    /\ res.args[1] \in DOMAIN nodes
    /\ ParentAge(res.args[1]) = res.args[2] + res.args[3]

-----------------------------------------------------------------------------
(* Delete *)

\* the IDs of the node with an ID and of its descendants
Below(h, ns, id) == { h[o].id : o \in Subtree(h, ns[id]) }

\* the number of children of the node with an ID
Degree(id) == Len(Children(heap, nodes, id))

\* the child of pid that is not id, when pid has two children
Sibling(pid, id) ==
    LET cs == Children(heap, nodes, pid)
    IN  IF cs[1] = id THEN cs[2] ELSE cs[1]

\* a sequence without x
Without(seq, x) == SelectSeq(seq, LAMBDA y : y # x)

DeleteBinaryPost(id) ==
    LET before == Nodes(heap, nodes)
        after == Nodes(heap', nodes')
        pid == Parent(heap, nodes, id)
        sid == Sibling(pid, id)
        anc == Parent(heap, nodes, pid)
    IN  /\ pid \notin after
        /\ Below(heap, nodes, id) \cap after = {}
        /\ sid \in before
        /\ \A k \in Below(heap, nodes, sid) :
               /\ k \in after
               /\ Age(heap', nodes', k) = Age(heap, nodes, k)
               /\ Taxon(heap', nodes', k) = Taxon(heap, nodes, k)
               /\ Kin(heap', nodes', k) = Kin(heap, nodes, k)
               /\ k # sid => Parent(heap', nodes', k) = Parent(heap, nodes, k)
        /\ Parent(heap', nodes', sid) = anc
        /\ anc # NoID =>
               /\ anc \in before \cap after
               /\ Kin(heap', nodes', anc) = Replaced(Kin(heap, nodes, anc), pid, sid)
        /\ anc = NoID =>
               /\ Root(heap', root') = sid
               /\ IsRoot(heap', nodes', sid)

\* C9: Delete(id) of a node whose parent p has exactly two children removes p
\* and id with its descendants; the sibling s and its descendants stay, with
\* their ages, taxa and children; s takes the place of p among the children
\* of the parent of p, whose other children and their order are unchanged;
\* if p was the root, s is the root: Parent(s) = -1 and IsRoot(s).
C9_DeleteBinary ==
    [][(/\ Succeeded("Delete")
        /\ res'.args[1] \in Nodes(heap, nodes)
        /\ Degree(Parent(heap, nodes, res'.args[1])) = 2)
           => DeleteBinaryPost(res'.args[1])]_vars

DeleteFrame(id) ==
    LET before == Nodes(heap, nodes)
        after == Nodes(heap', nodes')
        pid == Parent(heap, nodes, id)
        gone == Below(heap, nodes, id) \cup (IF Degree(pid) = 2 THEN {pid} ELSE {})
    IN  /\ after = before \ gone
        /\ \A k \in gone :
               Taxon(heap, nodes, k) # <<>> =>
                   /\ Taxon(heap, nodes, k) \notin Taxa(heap', taxa')
                   /\ TaxNode(heap', taxa', Taxon(heap, nodes, k)) = NoID
        /\ \A k \in after :
               /\ Age(heap', nodes', k) = Age(heap, nodes, k)
               /\ Taxon(heap', nodes', k) = Taxon(heap, nodes, k)
        /\ Degree(pid) >= 3 =>
               Kin(heap', nodes', pid) = Without(Kin(heap, nodes, pid), id)

\* C10: after Delete(id) of a node that is not the root, the nodes no longer
\* in the tree are id, its descendants and, only when the parent of id had
\* exactly two children, that parent; none of their taxon names is in Taxa()
\* or found by TaxNode; every node that remains keeps its age and taxon; with
\* a parent of three or more children the other children keep their order.
C10_DeleteFrame ==
    [][(/\ Succeeded("Delete")
        /\ res'.args[1] \in Nodes(heap, nodes)
        /\ ~IsRoot(heap, nodes, res'.args[1]))
           => DeleteFrame(res'.args[1])]_vars

-----------------------------------------------------------------------------
(* Calls with an ID that is not in the tree *)

\* the step is a call that returned no error and left the tree as it was
NoOp == res'.err = "" /\ UNCHANGED tree

\* C11: Delete, Set and SetName with an ID that is not in the tree return no
\* error and leave the tree unchanged; a Delete(id) that returned has removed
\* id, so the same Delete called again is such a call.
C11_AbsentNoOp ==
    [][/\ (res'.op \in {"Delete", "Set", "SetName"}
              /\ res'.args[1] \notin Nodes(heap, nodes)) => NoOp
       /\ Succeeded("Delete") => res'.args[1] \notin Nodes(heap', nodes')]_vars

\* Delete of an ID that the call before it has deleted returned no error
C11_Witness ==
    /\ res.op = "Delete"
    /\ res.err = ""
    /\ ~res.wrote
    /\ res.args[1] \notin Nodes(heap, nodes)
    /\ res.args[1] # AbsentID

-----------------------------------------------------------------------------
(* Move *)

\* a tree whose listed nodes are those below the root, with distinct IDs and
\* no node older than its parent
WellFormed == C1_ParentNotYounger /\ C2_UniqueIDs /\ C4_OneRootAllReached

\* the largest element of a non-empty set of integers
MaxOf(S) == CHOOSE x \in S : \A y \in S : y <= x

\* the longest distance from the root to a terminal
Longest ==
    MaxOf({ LenToRoot(heap, nodes, root, k) :
                k \in { j \in Nodes(heap, nodes) : IsTerm(heap, nodes, j) } })

MovePost(a) ==
    LET shift == a - Age(heap, nodes, Root(heap, root))
    IN  /\ res'.err = ""
        /\ Root(heap', root') = Root(heap, root)
        /\ Age(heap', nodes', Root(heap, root)) = a
        /\ Nodes(heap', nodes') = Nodes(heap, nodes)
        /\ \A k \in Nodes(heap, nodes) :
               /\ Age(heap', nodes', k) = Age(heap, nodes, k) + shift
               /\ Parent(heap', nodes', k) = Parent(heap, nodes, k)
               /\ LenToRoot(heap', nodes', root', k)
                      = LenToRoot(heap, nodes, root, k)

\* C12: on a well-formed tree Move(a) fails with InvalidRootAge, changing
\* nothing, exactly when a is smaller than the longest distance from the root
\* to a terminal; otherwise the root takes the age a and the age of every
\* node shifts by the same amount, so that LenToRoot of every node is kept.
C12_Move ==
    [][(res'.op = "Move" /\ WellFormed) =>
           IF res'.args[1] < Longest
           THEN Rejected("InvalidRootAge")
           ELSE MovePost(res'.args[1])]_vars

-----------------------------------------------------------------------------
(* Set *)

\* the ages of the children of the node with an ID
ChildAges(id) == { heap[c].age : c \in Kids(heap, nodes[id]) }

\* a successful Set(id, a): the age of id is a, nothing else changes
SetPost(id, a) ==
    /\ res'.err = ""
    /\ Age(heap', nodes', id) = a
    /\ Nodes(heap', nodes') = Nodes(heap, nodes)
    /\ Root(heap', root') = Root(heap, root)
    /\ Taxa(heap', taxa') = Taxa(heap, taxa)
    /\ \A k \in Nodes(heap, nodes) :
           /\ k # id => Age(heap', nodes', k) = Age(heap, nodes, k)
           /\ Parent(heap', nodes', k) = Parent(heap, nodes, k)
           /\ Taxon(heap', nodes', k) = Taxon(heap, nodes, k)
           /\ Kin(heap', nodes', k) = Kin(heap, nodes, k)

\* Set(id, a) on a node of the tree, where young tells whether a is too young
SetContract(id, a, young) ==
    IF ~IsRoot(heap, nodes, id) /\ a > ParentAge(id)
    THEN Rejected("OlderAge")
    ELSE IF young
    THEN Rejected("YoungerAge")
    ELSE SetPost(id, a)

\* C13 as stated: Set(id, a) on a node of the tree fails with OlderAge when
\* a > age(parent) (never for the root), otherwise with YoungerAge when a is
\* smaller than the age of the oldest child of id, leaving everything
\* unchanged; otherwise age(id) = a and no other age, no parent, children,
\* ID or taxon changes.
C13_SetAsStated ==
    [][(res'.op = "Set" /\ res'.args[1] \in Nodes(heap, nodes)) =>
           SetContract(res'.args[1], res'.args[2],
                       \E c \in ChildAges(res'.args[1]) : res'.args[2] < c)]_vars

\* C13 amended: as stated, but Set fails with YoungerAge also when a < 0,
\* whatever the children of id are.
C13_Set ==
    [][(res'.op = "Set" /\ res'.args[1] \in Nodes(heap, nodes)) =>
           SetContract(res'.args[1], res'.args[2],
                       \E c \in ChildAges(res'.args[1]) \cup {0} :
                           res'.args[2] < c)]_vars

\* Set of a negative age on a terminal was rejected with YoungerAge
C13_Witness ==
    /\ res.op = "Set"
    /\ res.err = "YoungerAge"
    /\ res.args[2] < 0
    /\ IsTerm(heap, nodes, res.args[1])

-----------------------------------------------------------------------------
(* SetName *)

\* SetName(id, "") on an internal node: the node has no name afterwards
ClearPost(id) ==
    LET old == Taxon(heap, nodes, id)
    IN  /\ res'.err = ""
        /\ Taxon(heap', nodes', id) = <<>>
        /\ old # <<>> =>
               /\ old \notin Taxa(heap', taxa')
               /\ TaxNode(heap', taxa', old) = NoID

\* C14: SetName(id, "") on a terminal fails with UnnamedTerm and changes
\* nothing; on an internal node it succeeds, and afterwards Taxon(id) is
\* empty and the former name is neither in Taxa() nor found by TaxNode.
C14_SetNameClear ==
    [][(/\ res'.op = "SetName"
        /\ res'.args[1] \in Nodes(heap, nodes)
        /\ canon(res'.args[2]) = <<>>) =>
           IF IsTerm(heap, nodes, res'.args[1])
           THEN Rejected("UnnamedTerm")
           ELSE ClearPost(res'.args[1])]_vars

\* a successful SetName(id, name) with a name that is not empty
RenamePost(id, name) ==
    LET old == Taxon(heap, nodes, id)
    IN  /\ res'.err = ""
        /\ TaxNode(heap', taxa', name) = id
        /\ Taxon(heap', nodes', id) = canon(name)
        /\ (old # <<>> /\ old # canon(name)) =>
               TaxNode(heap', taxa', old) = NoID

\* C15: SetName(id, name) with a name that is not empty fails with
\* RepeatedTaxon, changing nothing, exactly when canon(name) is the taxon of
\* a node other than id; otherwise TaxNode(name) = id, Taxon(id) = canon(name)
\* and the previous name of id is not found any more.
C15_SetNameRepeated ==
    [][(/\ res'.op = "SetName"
        /\ res'.args[1] \in Nodes(heap, nodes)
        /\ canon(res'.args[2]) # <<>>) =>
           IF TaxNode(heap, taxa, res'.args[2]) \notin {NoID, res'.args[1]}
           THEN Rejected("RepeatedTaxon")
           ELSE RenamePost(res'.args[1], res'.args[2])]_vars

-----------------------------------------------------------------------------
(* Format *)

\* the tree below n without IDs, addresses and the order of the children:
\* age, taxon, whether the node has a parent, and how many children there
\* are of each shape
RECURSIVE ShapeOf(_, _)
ShapeOf(h, n) ==
    LET cs == h[n].children
        shapes == { ShapeOf(h, cs[i]) : i \in 1..Len(cs) }
    IN  [age |-> h[n].age, taxon |-> h[n].taxon, top |-> h[n].parent = nil,
         kids |-> { <<sh, Cardinality({ i \in 1..Len(cs) : ShapeOf(h, cs[i]) = sh })>> :
                      sh \in shapes }]

\* the terminals below the node with an ID, and the first of their names
TermsBelow(h, ns, id) == { k \in Below(h, ns, id) : IsTerm(h, ns, k) }

FirstName(h, ns, id) ==
    LET names == { Taxon(h, ns, k) : k \in TermsBelow(h, ns, id) }
    IN  CHOOSE s \in names : \A t \in names : ~StrLess(t, s)

\* whether Format may put the node a before the node b of the same parent
InOrder(h, ns, a, b) ==
    LET ta == Cardinality(TermsBelow(h, ns, a))
        tb == Cardinality(TermsBelow(h, ns, b))
    IN  \/ ta < tb
        \/ /\ ta = tb
           /\ \/ Age(h, ns, a) > Age(h, ns, b)
              \/ /\ Age(h, ns, a) = Age(h, ns, b)
                 /\ ~StrLess(FirstName(h, ns, b), FirstName(h, ns, a))

\* the IDs of a formatted tree of n nodes
Formatted(h, ns, r, n) ==
    /\ Nodes(h, ns) = 0..(n - 1)
    /\ Root(h, r) = 0
    /\ \A k \in Nodes(h, ns) :
           /\ Below(h, ns, k) = k..(k + Cardinality(Below(h, ns, k)) - 1)
           /\ \A i \in 1..(Len(Kin(h, ns, k)) - 1) :
                  /\ Kin(h, ns, k)[i] < Kin(h, ns, k)[i + 1]
                  /\ InOrder(h, ns, Kin(h, ns, k)[i], Kin(h, ns, k)[i + 1])

\* C16: after Format of a tree of n nodes, Nodes() is 0..n-1, the root is 0,
\* the IDs below every node are a range that starts with the node, the
\* children of every node are in increasing ID order and ordered by fewer
\* terminals, then larger age, then smaller first terminal name; the ages,
\* taxa and parent/child relation of the tree are as before.
C16_Format ==
    [][Succeeded("Format") =>
           /\ Formatted(heap', nodes', root', Cardinality(Reached))
           /\ ShapeOf(heap', root') = ShapeOf(heap, root)]_vars

\* Format has put a named terminal after an unnamed one of the same age, and
\* an older child before a younger one
C16_Witness ==
    /\ res.op = "Format"
    /\ res.wrote
    /\ \E k \in Nodes(heap, nodes) :
           /\ Len(Kin(heap, nodes, k)) >= 3
           /\ \E i, j \in 1..3 :
                  /\ i < j
                  /\ IsTerm(heap, nodes, Kin(heap, nodes, k)[i])
                  /\ Taxon(heap, nodes, Kin(heap, nodes, k)[i]) = <<>>
                  /\ Taxon(heap, nodes, Kin(heap, nodes, k)[j]) # <<>>
           /\ \E i, j \in 1..3 :
                  /\ i < j
                  /\ Age(heap, nodes, Kin(heap, nodes, k)[i])
                         > Age(heap, nodes, Kin(heap, nodes, k)[j])

\* what the queries give for every ID of the tree
View(h, ns) ==
    [k \in Nodes(h, ns) |->
        <<Parent(h, ns, k), Children(h, ns, k), Age(h, ns, k), Taxon(h, ns, k)>>]

\* C17: a Format directly after a Format changes no ID: Nodes() and the
\* Parent, Children, Age and Taxon of every ID are as they were after the
\* first call.
C17_FormatIdempotent ==
    [][(res.op = "Format" /\ Succeeded("Format")) =>
           /\ Nodes(heap', nodes') = Nodes(heap, nodes)
           /\ Root(heap', root') = Root(heap, root)
           /\ View(heap', nodes') = View(heap, nodes)]_vars

\* a second Format of a tree with a node of three children, two of them with
\* the same number of terminals, the same age and the same first name
C17_Witness ==
    /\ res.op = "Format"
    /\ res.path = "again"
    /\ \E k \in Nodes(heap, nodes) :
           /\ Len(Kin(heap, nodes, k)) >= 3
           /\ \E i, j \in 1..3 :
                  /\ i < j
                  /\ InOrder(heap, nodes, Kin(heap, nodes, k)[i], Kin(heap, nodes, k)[j])
                  /\ InOrder(heap, nodes, Kin(heap, nodes, k)[j], Kin(heap, nodes, k)[i])

\* the orders in which the same children can stand in the slice of a node
Orders(cs) ==
    { [i \in 1..Len(cs) |-> cs[p[i]]] : p \in Permutations(1..Len(cs)) }

\* the trees that differ from the tree only in the order in which the
\* children of one node were added
Rearranged ==
    { [heap EXCEPT ![o].children = s] :
        <<o, s>> \in UNION { {o} \X Orders(heap[o].children) : o \in Reached } }

\* what the queries give for every ID after Format of the tree on the heap h
FormatView(h) ==
    LET h1 == sortAllChildren(h, root)
        ns == preOrder(h1, root)
    IN  View(Renumber(h1, ns), [i \in 0..(Len(ns) - 1) |-> ns[i + 1]])

AllTermsNamed == \A o \in Reached : isTerm(heap, o) => heap[o].taxon # <<>>

\* C18: Format of a tree whose terminals are all named gives every ID the
\* parent, age, taxon and children that Format gives it on the same rooted
\* tree with the children added in another order.
C18_FormatSameIDs ==
    [][(Succeeded("Format") /\ AllTermsNamed) =>
           \A h \in Rearranged : FormatView(h) = View(heap', nodes')]_vars

-----------------------------------------------------------------------------
(* MRCA and Validate *)

\* the nodes that carry the names of a list, and the nodes that are an
\* ancestor of, or equal to, each of them
Named(names) == { taxa[canon(names[i])] : i \in 1..Len(names) }

CommonAncestors(names) ==
    { n \in DOMAIN heap : Named(names) \subseteq Subtree(heap, n) }

Deepest(names, n) ==
    /\ n \in CommonAncestors(names)
    /\ \A o \in CommonAncestors(names) : n \in Subtree(heap, o)

Unknown(names) ==
    \E i \in 1..Len(names) : TaxNode(heap, taxa, names[i]) = NoID

\* the lists with the same names, in any order and any number of times
SameNames(names) ==
    { other \in NameLists :
        { canon(other[i]) : i \in 1..Len(other) }
            = { canon(names[i]) : i \in 1..Len(names) } }

MRCAContract(names, r) ==
    /\ r.err = ""
    /\ IF names = <<>> \/ Unknown(names)
       THEN r.ret = NoID
       ELSE /\ r.ret \in Nodes(heap, nodes)
            /\ \E n \in DOMAIN heap : Deepest(names, n) /\ heap[n].id = r.ret
            /\ Len(names) = 1 => r.ret = TaxNode(heap, taxa, names[1])
            /\ \A other \in SameNames(names) :
                   MRCA(heap, taxa, other).ret = r.ret

\* C19: MRCA returns -1 exactly when the list is empty or a name is not the
\* taxon of a node; otherwise the ID of the deepest node that is an ancestor
\* of, or equal to, every named node (the node itself for one name), the
\* same for every order and repetition of the names.
C19_MRCA == res.op = "MRCA" => MRCAContract(res.args[1], res)

SomeSingleChild ==
    \E k \in Nodes(heap, nodes) : Len(Children(heap, nodes, k)) = 1

SomeUnnamedTerm ==
    \E k \in Nodes(heap, nodes) :
        IsTerm(heap, nodes, k) /\ Taxon(heap, nodes, k) = <<>>

\* C20: Validate returns SingleChild when some node has exactly one child,
\* whether or not a terminal is unnamed; otherwise UnnamedTerm when some
\* terminal has no name; otherwise no error.  It changes nothing in the tree.
C20_Validate ==
    [][res'.op = "Validate" =>
           /\ UNCHANGED tree
           /\ res'.err = IF SomeSingleChild THEN "SingleChild"
                         ELSE IF SomeUnnamedTerm THEN "UnnamedTerm"
                         ELSE ""]_vars

-----------------------------------------------------------------------------
(* Root *)

\* C21: Root() is 0 in every state: after New and after every sequence of
\* Add, AddSister, Delete, Move, Set, SetName and Format, also right after a
\* Delete of one of the two children of the root.
C21_RootIsZero == Root(heap, root) = 0

-----------------------------------------------------------------------------
(* SubTree *)

\* the tree below n by its child links, without IDs, addresses and the order
\* of the children
RECURSIVE DownShape(_, _)
DownShape(h, n) ==
    LET cs == h[n].children
        shapes == { DownShape(h, cs[i]) : i \in 1..Len(cs) }
    IN  [age |-> h[n].age, taxon |-> h[n].taxon,
         kids |-> { <<sh, Cardinality({ i \in 1..Len(cs) : DownShape(h, cs[i]) = sh })>> :
                      sh \in shapes }]

\* the tree sub is a copy of the tree below the node with an ID: the same
\* nodes by age, taxon and descent, the copy of the node as root, the IDs of
\* Format, every node listed, and no node object of the source in it
SubTreePost(id, sub) ==
    /\ DownShape(sub.heap, sub.root) = DownShape(heap, nodes[id])
    /\ Formatted(sub.heap, sub.nodes, sub.root,
                 Cardinality(Subtree(heap, nodes[id])))
    /\ sub.heap[sub.root].parent = nil
    /\ \A o \in Subtree(sub.heap, sub.root) :
           \A c \in Kids(sub.heap, o) : sub.heap[c].parent = o
    /\ Range(sub.nodes) = Subtree(sub.heap, sub.root)
    /\ Live(sub.heap, sub.root, sub.nodes, sub.taxa) \cap DOMAIN heap = {}
    /\ Restrict(sub.heap, DOMAIN heap) = heap

-----------------------------------------------------------------------------
(* TSV *)

\* Validate succeeds on the tree, and Format would change nothing in it
Valid == ~SomeSingleChild /\ ~SomeUnnamedTerm

IsFormatted ==
    LET t == [heap |-> heap, nodes |-> nodes, taxa |-> taxa, root |-> root]
    IN  formatTree(t) = t

\* the names of the tree, found by TaxNode or carried by a node
AllNames ==
    Taxa(heap, taxa) \cup { Taxon(heap, nodes, k) : k \in Nodes(heap, nodes) }

\* the tree read is the tree written: name, nodes, the parent, children, age
\* and taxon of every ID, and the ID of every name
SameTree(name, t) ==
    /\ t.name = name
    /\ Nodes(t.heap, t.nodes) = Nodes(heap, nodes)
    /\ View(t.heap, t.nodes) = View(heap, nodes)
    /\ \A nm \in AllNames : TaxNode(t.heap, t.taxa, nm) = TaxNode(heap, taxa, nm)

\* C23: a valid, formatted tree in a Collection is written by TSV, and
\* ReadTSV of the output returns a tree with the same name, the same nodes,
\* the same parent, age, taxon and children for every ID and the same ID for
\* every taxon.
C23_TSVRoundTrip ==
    [][(Valid /\ IsFormatted) =>
           /\ (res'.op = "TSV" /\ res'.path # "add") => res'.err = ""
           /\ res'.op = "ReadTSV" =>
                  /\ res'.err = ""
                  /\ SameTree(res.args[1], res'.ret)]_vars

-----------------------------------------------------------------------------
(* Newick *)

\* The text of a statement, read without the parser: a rune is outside the
\* quoted labels when an even number of quotes precedes it; the depth of a
\* place is the number of groups open before it.
Quoted(text, i) ==
    Cardinality({ j \in 1..(i - 1) : text[j] = "'" }) % 2 = 1

Outside(text, i) == text[i] # "'" /\ ~Quoted(text, i)

DepthBefore(text, i) ==
    Cardinality({ j \in 1..(i - 1) : Outside(text, j) /\ text[j] = "(" })
    - Cardinality({ j \in 1..(i - 1) : Outside(text, j) /\ text[j] = ")" })

\* the places where a group closes
GroupCloses(text) ==
    { j \in 1..Len(text) : Outside(text, j) /\ text[j] = ")" }

\* the place where the group closed at j opens
GroupOpen(text, j) ==
    CHOOSE i \in 1..(j - 1) :
        /\ Outside(text, i) /\ text[i] = "("
        /\ DepthBefore(text, i) + 1 = DepthBefore(text, j)
        /\ \A k \in (i + 1)..(j - 1) :
               ~(/\ Outside(text, k) /\ text[k] = "("
                 /\ DepthBefore(text, k) + 1 = DepthBefore(text, j))

\* the number of members of the group closed at j: one more than the commas
\* between its members
GroupSize(text, j) ==
    1 + Cardinality({ k \in (GroupOpen(text, j) + 1)..(j - 1) :
                        /\ Outside(text, k) /\ text[k] = ","
                        /\ DepthBefore(text, k) = DepthBefore(text, j) })

\* the places where the label of a terminal starts
LabelStarts(text) ==
    { p \in 2..Len(text) :
        /\ ~Quoted(text, p)
        /\ text[p] \notin {"(", ")", ",", ":", ";", " "}
        /\ Outside(text, p - 1)
        /\ text[p - 1] \in {"(", ","} }

\* the label that starts at p: between the quotes, or up to a reserved rune
LabelAt(text, p) ==
    IF text[p] = "'"
    THEN LET q == CHOOSE j \in (p + 1)..Len(text) :
                      text[j] = "'" /\ \A k \in (p + 1)..(j - 1) : text[k] # "'"
         IN  SubSeq(text, p + 1, q - 1)
    ELSE LET q == CHOOSE j \in (p + 1)..Len(text) :
                      /\ text[j] \in {"(", ")", ",", ":", ";", " "}
                      /\ \A k \in (p + 1)..(j - 1) :
                             text[k] \notin {"(", ")", ",", ":", ";", " "}
         IN  SubSeq(text, p, q - 1)

\* the places of the text where a group closes with fewer than two members,
\* and where a terminal repeats the name of an earlier one
SingleChildAt(text) == { j \in GroupCloses(text) : GroupSize(text, j) < 2 }

RepeatedAt(text) ==
    { p \in LabelStarts(text) :
        \E q \in LabelStarts(text) :
            q < p /\ canon(LabelAt(text, q)) = canon(LabelAt(text, p)) }

FirstOf(S, T) == S # {} /\ \A t \in T : \E x \in S : x < t

\* the terminals of a tree read
TermsOf(t) == { n \in Range(t.nodes) : isTerm(t.heap, n) }

\* C24: the trees Newick returns pass Validate and have terminals with
\* pairwise distinct names; a text in which a group closes with fewer than
\* two members fails with the single-child error, and one in which a terminal
\* repeats a name fails with RepeatedTaxon, whichever is met first in the
\* text; a failed call returns no collection and no tree.
C24_Newick ==
    res.op = "Newick" =>
        LET text == res.args[1]
        IN  /\ res.err = "" =>
                   \A i \in 1..Len(res.ret) :
                       /\ validateErrors(res.ret[i]) = {""}
                       /\ \A m, n \in TermsOf(res.ret[i]) :
                              m # n => res.ret[i].heap[m].taxon
                                           # res.ret[i].heap[n].taxon
            /\ FirstOf(SingleChildAt(text), RepeatedAt(text))
                   => res.err = "SingleChild"
            /\ FirstOf(RepeatedAt(text), SingleChildAt(text))
                   => res.err = "RepeatedTaxon"
            /\ res.err # "" => res.ret = <<>>

\* the nodes and branch lengths of the statement as the parser reads them,
\* and the longest sum of branch lengths from a child of the root down to a
\* terminal
Statement(text) == readNewick(text, firstParen(text, 1))

\* the sum of the branch lengths on the path from the root to the node
RECURSIVE PathLen(_, _)
PathLen(h, n) ==
    IF h[n].parent = nil THEN 0 ELSE h[n].brLen + PathLen(h, h[n].parent)

LongestPath(h) ==
    MaxOf({ PathLen(h, n) : n \in { m \in DOMAIN h : isTerm(h, m) } })

\* C25: with target age 0 the age of the root is the longest sum of branch
\* lengths from a child of the root down to a terminal, whether or not the
\* text gives a branch length after the closing parenthesis of the root;
\* with a positive target age the call fails with InvalidRootAge exactly
\* when that sum is larger, and otherwise the root has the target age; the
\* age of every node is the age of the root minus the branch lengths on its
\* path from the root, and no age is negative.
C25_RootAge ==
    (res.op = "Newick" /\ Statement(res.args[1]).err = "") =>
        LET p == Statement(res.args[1])
            age == res.args[2]
            longest == LongestPath(p.heap)
        IN  /\ age = 0 => res.err = ""
            /\ age > 0 => (res.err = "InvalidRootAge" <=> longest > age)
            /\ res.err = "" =>
                   LET t == res.ret[1]
                   IN  /\ t.heap[t.root].age = IF age = 0 THEN longest ELSE age
                       /\ \A n \in Range(t.nodes) :
                              /\ t.heap[n].age
                                     = t.heap[t.root].age - PathLen(t.heap, n)
                              /\ t.heap[n].age >= 0

\* C26: a quoted label keeps every rune between its quotes, parentheses,
\* colons and commas too: in a tree that is read, the terminal of a quoted
\* label has the canonical form of the whole label as its name, and labels
\* that differ in such a rune are not taken for a repeated name.
C26_QuotedLabel ==
    res.op = "Newick" =>
        LET text == res.args[1]
            quoted == { p \in LabelStarts(text) : text[p] = "'" }
        IN  /\ res.err = "" =>
                   \A p \in quoted :
                       canon(LabelAt(text, p)) \in DOMAIN res.ret[1].taxa
            /\ res.err = "RepeatedTaxon" => RepeatedAt(text) # {}

-----------------------------------------------------------------------------
(* Nexus *)

\* the TRANSLATE table of the text, empty if it has none
TableOf(text) ==
    LET at == Len(NexusHeader)
    IN  IF SubSeq(text, at + 1, at + 9) = <<"t", "r", "a", "n", "s", "l", "a", "t", "e">>
        THEN readTranslate(text, at + 10, 0, <<>>).val
        ELSE <<>>

\* the name the text gives to the terminal with the label: that of the table
\* if the label is one of its keys
Translated(text, label) ==
    IF label \in DOMAIN TableOf(text) THEN TableOf(text)[label]
    ELSE canon(label)

TermNames(t) == { t.heap[n].taxon : n \in TermsOf(t) }

\* C28: in a tree Nexus returns, the terminals have the names the text gives
\* them: the name of the TRANSLATE table for a label that is a key of the
\* table, and no key stays in the place of its name, whether or not that name
\* is the label of another terminal of the statement.
C28_Translate ==
    (res.op = "Nexus" /\ res.err = "") =>
        LET text == res.args[1]
        IN  TermNames(res.ret[1])
                = { Translated(text, LabelAt(text, p)) : p \in LabelStarts(text) }

-----------------------------------------------------------------------------
(* The cached branch lengths *)

\* C27: the branch length stored in every node of the tree that is not the
\* root is the age of its parent minus its own age, and the one stored in the
\* root is 0, after every Add, AddSister, Delete, Set and Move.
C27_BrLenCached ==
    \A n \in Reached :
        heap[n].brLen = IF heap[n].parent = nil THEN 0
                        ELSE heap[heap[n].parent].age - heap[n].age

-----------------------------------------------------------------------------
(* Delete *)

\* C29: Delete of an ID of the tree ends without a runtime fault, for the ID
\* of the root (a node without parent) and for the only child of a node as
\* well: it never reads the children of a parent that is not there.
C29_DeleteNoFault ==
    (res.op = "Delete" /\ res.path # "absent") => res.err # "panic"

-----------------------------------------------------------------------------
(* ReadTSV *)

\* the rows whose parent is an ID that no earlier row defines
Orphans(rows) ==
    { i \in 1..Len(rows) :
        /\ Atoi(rows[i].parent).ok
        /\ Atoi(rows[i].parent).val >= 0
        /\ \A j \in 1..(i - 1) : rows[j].node # rows[i].parent }

\* the row is the first one with an error, and its ID is a new one
FirstError(rows, i) ==
    /\ readRows(EmptyTree, SubSeq(rows, 1, i - 1), 1).err = ""
    /\ \A j \in 1..(i - 1) : rows[j].node # rows[i].node

\* C30: ReadTSV fails with the error of a parent that is not in the tree on
\* a row whose parent is an ID that no earlier row of the tree defines; the
\* row does not become the root or take the place of the root, and the root
\* of a tree that is returned is a row with parent -1.
C30_ReadTSVNoParent ==
    res.op = "ReadTSV" =>
        LET rows == res.args[1]
        IN  /\ \A i \in Orphans(rows) : FirstError(rows, i) => res.err = "NoParent"
            /\ res.err = "" =>
                   /\ Orphans(rows) = {}
                   /\ \E i \in 1..Len(rows) :
                          /\ rows[i].parent = <<"-", "1">>
                          /\ Atoi(rows[i].node).val = res.ret.heap[res.ret.root].id

====
